---- MODULE Spec2Model ----
(***************************************************************************)
(* Residuals data-cleaning pipeline (src/app.py, src/appy.py).             *)
(*                                                                         *)
(* Text cells are sequences of one-character strings; the pandas null      *)
(* marker (NaN / <NA> / NaT) of a text cell is the one-element sequence NA.*)
(* Tables are sequences of records; the field idx is the DataFrame index   *)
(* label of a row, which every filter of the source preserves.             *)
(***************************************************************************)
EXTENDS Integers, Sequences, FiniteSets, TLC

VARIABLES
    pc,         \* position of the run
    nx,         \* Identifier Normalizer: the input cell
    ny,         \* clean_id_numeric(nx)
    nz,         \* clean_id_numeric(ny)
    selected_month_year,    \* the cutoff date (month-end), 0 while unused
    tsys_csv,   \* the rows of the uploaded TSYS synoptic file
    kept_tsys,  \* the table returned by the TSYS Roster Filter
    fiserv_csv, \* the rows of the uploaded Fiserv synoptic file
    paso_1800,  \* the cells of the first Partner extract (PASO 1800 / S1)
    paso_3900,  \* the cells of the second Partner extract (PASO 3900 / S2)
    kept_fiserv,    \* the table returned by the Fiserv Roster Filter
    PASO_kept,  \* the Partner Roster output table
    zoho_raw,   \* the rows of the uploaded Fee Ledger (Zoho) file
    mex_raw,    \* the rows of the uploaded Rate Extract (MEX) file
    Zoho_keep_Fiserv,   \* the Fiserv sheet of the Fee Ledger output
    Zoho_keep_TSYS,     \* the TSYS sheet of the Fee Ledger output
    kept_mex_monthly,   \* the Rate Extract rows kept for the monthly workbook
    mex_step1_lookup,   \* the Step-1 aggregate built by apply_mex_step1_lookup_exact
    mex_out_df,     \* the standalone Rate Extract output table
    wireless_raw,   \* the rows of the uploaded Wireless-Usage file
    wcv_lookup,     \* the merchant-key to count lookup of the Wireless-Usage Extractor
    wireless_result,    \* the Wireless Count sheet
    valor_raw,      \* the rows of the uploaded ISO Report (Valor) file
    valor_iso,      \* the ISO Report output table
    valor_rerun,    \* process_valor_exact applied to valor_iso
    missing,        \* TRUE while one of the eight uploads is absent
    now,            \* the clock read by datetime.now()
    outputs,        \* the dict run_step1_pipeline is filling (names of its entries)
    step1_outputs,  \* st.session_state.step1_outputs (names of its entries)
    step1_ran,      \* st.session_state.step1_ran
    last_run_meta,  \* st.session_state.last_run_meta: <<>> for {}, else <<label>>
    six_used,       \* the dormancy threshold each dormancy check was given
    valor_columns,      \* the column titles of the uploaded ISO Report file
    valor_iso_columns,  \* the column titles of the ISO Report output table
    tsys_raw,       \* the TSYS DataFrame handed to the roster filter, as the filter left it
    fiserv_raw,     \* the Fiserv DataFrame handed to the roster filter, as the filter left it
    step,           \* appy.py st.session_state.step
    step1_complete, \* appy.py st.session_state.step1_complete
    output_files,   \* appy.py st.session_state.output_files (names of its entries)
    uploaded,       \* appy.py: the Step 1 uploaders that hold a file
    step2_uploaded, \* appy.py: the Step 2 uploaders that hold a file
    error_shown     \* appy.py: the page shows "Error processing files"

normVars == <<nx, ny, nz>>
tsysVars == <<tsys_csv, kept_tsys>>
fiservVars == <<fiserv_csv, paso_1800, paso_3900, kept_fiserv, PASO_kept>>

zohoVars == <<zoho_raw, mex_raw, Zoho_keep_Fiserv, Zoho_keep_TSYS, kept_mex_monthly,
              mex_step1_lookup>>

isoVars == <<mex_out_df, wireless_raw, wcv_lookup, wireless_result, valor_raw, valor_iso,
             valor_rerun>>

uiVars == <<missing, now, outputs, step1_outputs, step1_ran, last_run_meta>>

sixVars == <<six_used>>

colVars == <<valor_columns, valor_iso_columns>>

rawVars == <<tsys_raw, fiserv_raw>>

appyVars == <<step, step1_complete, output_files, uploaded, step2_uploaded, error_shown>>

otherVars == <<isoVars, uiVars, sixVars, colVars, appyVars>>

restVars == <<otherVars, rawVars>>

vars == <<pc, selected_month_year, normVars, tsysVars, fiservVars, zohoVars, restVars>>

(***************************************************************************)
(* Bounds                                                                  *)
(***************************************************************************)
MaxLen == 5         \* longest identifier text enumerated for the normalizer
MaxTsysRows == 2    \* most rows of a TSYS synoptic file
MaxFiservRows == 2  \* most rows of a Fiserv synoptic file
MaxZohoRows == 2    \* most rows of a Fee Ledger file
MaxMexRows == 2     \* most rows of a Rate Extract file
MaxWirelessRows == 2    \* most rows of a Wireless-Usage file
MaxValorRows == 2   \* most rows of an ISO Report file
MaxPasoRows == 2    \* most rows of one Partner extract
MaxRuns == 3        \* most clicks on "Generate Step-1 Outputs" in a session

(***************************************************************************)
(* Values of the variables of a component that a run does not use          *)
(***************************************************************************)
NA == <<"<NA>">>

IdleNorm == nx = NA /\ ny = NA /\ nz = NA

IdleTsys == tsys_csv = <<>> /\ kept_tsys = <<>>

IdleFiserv ==
    /\ fiserv_csv = <<>>
    /\ paso_1800 = <<>>
    /\ paso_3900 = <<>>
    /\ kept_fiserv = <<>>
    /\ PASO_kept = <<>>

IdleZoho ==
    /\ zoho_raw = <<>>
    /\ mex_raw = <<>>
    /\ Zoho_keep_Fiserv = <<>>
    /\ Zoho_keep_TSYS = <<>>
    /\ kept_mex_monthly = <<>>
    /\ mex_step1_lookup = <<>>

IdleIso ==
    /\ mex_out_df = <<>>
    /\ wireless_raw = <<>>
    /\ wcv_lookup = <<>>
    /\ wireless_result = <<>>
    /\ valor_raw = <<>>
    /\ valor_iso = <<>>
    /\ valor_rerun = <<>>

\* the session state of a fresh session (lines 31-36), every upload present
IdleUi ==
    /\ missing = FALSE
    /\ now = 0
    /\ outputs = {}
    /\ step1_outputs = {}
    /\ step1_ran = FALSE
    /\ last_run_meta = <<>>

IdleSix == six_used = {}

IdleCols == valor_columns = <<>> /\ valor_iso_columns = <<>>

IdleRaw == tsys_raw = <<>> /\ fiserv_raw = <<>>

\* appy.py session state defaults (lines 17-30), no file uploaded
IdleAppy ==
    /\ step = 1
    /\ step1_complete = FALSE
    /\ output_files = {}
    /\ uploaded = {}
    /\ step2_uploaded = {}
    /\ error_shown = FALSE

IdleRest == IdleIso /\ IdleUi /\ IdleSix /\ IdleCols /\ IdleRaw /\ IdleAppy

(***************************************************************************)
(* Text                                                                    *)
(***************************************************************************)

Digit == {"0", "1", "2", "3", "4", "5", "6", "7", "8", "9"}

Space == {" ", "\t", "\n", "~"}     \* "~" stands for the no-break space \xa0

IsDigit(c) == c \in Digit

IsSpace(c) == c \in Space

RECURSIVE LStrip(_)
LStrip(s) ==
    IF s # <<>> /\ IsSpace(Head(s)) THEN LStrip(Tail(s)) ELSE s

RECURSIVE RStrip(_)
RStrip(s) ==
    IF s # <<>> /\ IsSpace(s[Len(s)]) THEN RStrip(SubSeq(s, 1, Len(s) - 1)) ELSE s

\* str.strip()
Strip(s) == RStrip(LStrip(s))

\* number of "0" characters at the end of s
RECURSIVE TrailingZeros(_)
TrailingZeros(s) ==
    IF s # <<>> /\ s[Len(s)] = "0"
    THEN 1 + TrailingZeros(SubSeq(s, 1, Len(s) - 1))
    ELSE 0

\* str.replace(r"\.0+$", "", regex=True)
StripDotZeros(s) ==
    LET k == TrailingZeros(s)
    IN  IF k >= 1 /\ Len(s) > k /\ s[Len(s) - k] = "."
        THEN SubSeq(s, 1, Len(s) - k - 1)
        ELSE s

\* str.replace(r"\D+", "", regex=True)
DigitsOnly(s) == SelectSeq(s, IsDigit)

\* a normalizer that forgets the digits-only reduction
clean_id_numeric_keep_nondigits(x) ==
    IF x = NA THEN NA
    ELSE LET r == StripDotZeros(Strip(x))
         IN  IF r = <<>> THEN NA ELSE r

clean_id_numeric(x) ==
    IF x = NA THEN NA
    ELSE LET r == DigitsOnly(StripDotZeros(Strip(x)))
         IN  IF r = <<>> THEN NA ELSE r

(***************************************************************************)
(* Identifier Normalizer run on one cell, then on its own result           *)
(***************************************************************************)
NormAlphabet == {"0", "1", ".", "E", "+", " "}

NormInputs == {NA} \cup UNION {[1..n -> NormAlphabet] : n \in 0..MaxLen}

InitNorm ==
    /\ pc = "norm0"
    /\ IdleRest
    /\ nx \in NormInputs
    /\ ny = NA
    /\ nz = NA
    /\ selected_month_year = 0
    /\ IdleTsys
    /\ IdleFiserv
    /\ IdleZoho

Normalize ==
    /\ pc = "norm0"
    /\ ny' = clean_id_numeric(nx)
    /\ pc' = "norm1"
    /\ UNCHANGED restVars
    /\ UNCHANGED <<nx, nz, selected_month_year, tsysVars, fiservVars, zohoVars>>

NormalizeAgain ==
    /\ pc = "norm1"
    /\ nz' = clean_id_numeric(ny)
    /\ pc' = "norm2"
    /\ UNCHANGED restVars
    /\ UNCHANGED <<nx, ny, selected_month_year, tsysVars, fiservVars, zohoVars>>

NextNorm == Normalize \/ NormalizeAgain

SpecNorm == InitNorm /\ [][NextNorm]_vars

(***************************************************************************)
(* Plain decimal rendering of numeric text, used to state what a numeric   *)
(* parse of an identifier would give                                       *)
(***************************************************************************)
IsDigits(s) == s # <<>> /\ \A i \in 1..Len(s) : IsDigit(s[i])

DigitVal(c) ==
    CASE c = "0" -> 0 [] c = "1" -> 1 [] c = "2" -> 2 [] c = "3" -> 3
      [] c = "4" -> 4 [] c = "5" -> 5 [] c = "6" -> 6 [] c = "7" -> 7
      [] c = "8" -> 8 [] c = "9" -> 9

RECURSIVE ToNat(_)
ToNat(s) ==
    IF s = <<>> THEN 0
    ELSE 10 * ToNat(SubSeq(s, 1, Len(s) - 1)) + DigitVal(s[Len(s)])

Zeros(n) == [i \in 1..n |-> "0"]

RECURSIVE StripLeadingZeros(_)
StripLeadingZeros(s) ==
    IF Len(s) > 1 /\ Head(s) = "0" THEN StripLeadingZeros(Tail(s)) ELSE s

IsMantissa(m) ==
    \/ IsDigits(m)
    \/ \E d \in 1..Len(m) :
          m[d] = "." /\ IsDigits(SubSeq(m, 1, d - 1)) /\ IsDigits(SubSeq(m, d + 1, Len(m)))

IsExponent(e) ==
    \/ IsDigits(e)
    \/ e # <<>> /\ Head(e) = "+" /\ IsDigits(Tail(e))

\* text of the form d+[.d+]E[+]d+
IsSci(s) ==
    \E e \in 1..Len(s) :
        s[e] = "E" /\ IsMantissa(SubSeq(s, 1, e - 1)) /\ IsExponent(SubSeq(s, e + 1, Len(s)))

SciMantissa(s) == SubSeq(s, 1, (CHOOSE e \in 1..Len(s) : s[e] = "E") - 1)

SciExponent(s) ==
    ToNat(DigitsOnly(SubSeq(s, (CHOOSE e \in 1..Len(s) : s[e] = "E") + 1, Len(s))))

SciInt(s) ==
    LET m == SciMantissa(s)
    IN  IF IsDigits(m) THEN m ELSE SubSeq(m, 1, (CHOOSE d \in 1..Len(m) : m[d] = ".") - 1)

SciFrac(s) ==
    LET m == SciMantissa(s)
    IN  IF IsDigits(m) THEN <<>> ELSE SubSeq(m, (CHOOSE d \in 1..Len(m) : m[d] = ".") + 1, Len(m))

\* the scientific-notation text denotes a positive integer
IsSciInteger(s) ==
    /\ IsSci(s)
    /\ SciExponent(s) >= Len(SciFrac(s))
    /\ ToNat(SciInt(s) \o SciFrac(s)) > 0

\* the plain rendering of that integer
SciPlain(s) ==
    StripLeadingZeros(SciInt(s) \o SciFrac(s) \o Zeros(SciExponent(s) - Len(SciFrac(s))))

\* text of the form d+.0+
IsFloatOfInt(s) ==
    \E d \in 1..Len(s) :
        /\ s[d] = "."
        /\ IsDigits(SubSeq(s, 1, d - 1))
        /\ d < Len(s)
        /\ \A i \in (d + 1)..Len(s) : s[i] = "0"

FloatIntPart(s) == SubSeq(s, 1, (CHOOSE d \in 1..Len(s) : s[d] = ".") - 1)

(***************************************************************************)
(* Claims about the Identifier Normalizer                                  *)
(***************************************************************************)

\* C2: normalizing a normalized identifier changes nothing, and every result
\* is the null marker or a non-empty digits-only text.
Thm_C2_NormalizerIdempotent ==
    /\ pc \in {"norm1", "norm2"} => (ny = NA \/ IsDigits(ny))
    /\ pc = "norm2" => nz = ny

\* C2 witness: an input that the normalizer changed to a non-null identifier,
\* normalized a second time.
Wit_C2_ChangedThenStable ==
    pc = "norm2" /\ nx # NA /\ ny # NA /\ ny # nx /\ Len(ny) < Len(nx) - 1

\* C3 as stated: a float rendering d.0..0 normalizes to d, and a
\* scientific-notation rendering of an integer normalizes to the plain
\* digits of that integer.
Cex_C3_FloatAndScientific ==
    pc = "norm1" =>
        /\ IsFloatOfInt(nx) => ny = FloatIntPart(nx)
        /\ IsSciInteger(nx) => ny = SciPlain(nx)

\* C3, the part that the code satisfies, kept for reference
FloatRenderingNormalizes ==
    pc = "norm1" /\ IsFloatOfInt(nx) => ny = FloatIntPart(nx)

(***************************************************************************)
(* More text: lower-casing and the literals the rules compare with         *)
(***************************************************************************)
UpperLetters ==
    <<"A", "B", "C", "D", "E", "F", "G", "H", "I", "J", "K", "L", "M",
      "N", "O", "P", "Q", "R", "S", "T", "U", "V", "W", "X", "Y", "Z">>

LowerLetters ==
    <<"a", "b", "c", "d", "e", "f", "g", "h", "i", "j", "k", "l", "m",
      "n", "o", "p", "q", "r", "s", "t", "u", "v", "w", "x", "y", "z">>

IsLetter(c) == \E i \in 1..26 : UpperLetters[i] = c \/ LowerLetters[i] = c

LowerChar(c) ==
    IF \E i \in 1..26 : UpperLetters[i] = c
    THEN LowerLetters[CHOOSE i \in 1..26 : UpperLetters[i] = c]
    ELSE c

\* str.lower()
Lower(s) == [i \in 1..Len(s) |-> LowerChar(s[i])]

\* fillna("")
FillNa(c) == IF c = NA THEN <<>> ELSE c

\* .fillna("").astype(str).str.strip().str.lower()
StripLower(c) == Lower(Strip(FillNa(c)))

\* .fillna("").astype(str).str.strip()
StripText(c) == Strip(FillNa(c))

T_closed == <<"c", "l", "o", "s", "e", "d">>
T_declined == <<"d", "e", "c", "l", "i", "n", "e", "d">>
T_cancelled == <<"c", "a", "n", "c", "e", "l", "l", "e", "d">>
T_Open == <<"O", "p", "e", "n">>
T_hubwallet == <<"h", "u", "b", "w", "a", "l", "l", "e", "t">>
T_stephany_perez ==
    <<"s", "t", "e", "p", "h", "a", "n", "y", " ", "p", "e", "r", "e", "z">>
T_nigel_westbury ==
    <<"n", "i", "g", "e", "l", " ", "w", "e", "s", "t", "b", "u", "r", "y">>
T_brandon_casillas ==
    <<"b", "r", "a", "n", "d", "o", "n", " ", "c", "a", "s", "i", "l", "l", "a", "s">>

(***************************************************************************)
(* Dates: a Timestamp is the number yyyymmdd, NaT is 0.  A raw date cell   *)
(* is such a number, 0 for an empty cell or -1 for text that is no date.   *)
(***************************************************************************)
NaT == 0

MkDate(y, m, d) == y * 10000 + m * 100 + d
YearOf(t) == t \div 10000
MonthOf(t) == (t \div 100) % 100
DayOf(t) == t % 100

IsLeap(y) == (y % 4 = 0 /\ y % 100 # 0) \/ y % 400 = 0

\* calendar.monthrange(year, month)[1]
DaysInMonth(y, m) ==
    IF m = 2 THEN (IF IsLeap(y) THEN 29 ELSE 28)
    ELSE IF m \in {4, 6, 9, 11} THEN 30 ELSE 31

\* pd.Timestamp(year=year, month=month, day=last_day)
MonthEndOf(y, m) == MkDate(y, m, DaysInMonth(y, m))

\* t - pd.DateOffset(months=n): same day of the earlier month, clipped to its end
MinusMonths(t, n) ==
    LET k == YearOf(t) * 12 + (MonthOf(t) - 1) - n
        y == k \div 12
        m == (k % 12) + 1
        d == IF DayOf(t) > DaysInMonth(y, m) THEN DaysInMonth(y, m) ELSE DayOf(t)
    IN  MkDate(y, m, d)

\* t + MonthEnd(0): roll forward to the end of t's month
RollToMonthEnd(t) == MonthEndOf(YearOf(t), MonthOf(t))

\* app.py: selected_month_year - pd.DateOffset(months=6) + MonthEnd(0)
six_months_before(cutoff) == RollToMonthEnd(MinusMonths(cutoff, 6))

\* appy.py clean_tsys_data: selected_month_year - pd.DateOffset(months=6)
six_months_before_tsys_data(cutoff) == MinusMonths(cutoff, 6)

\* pd.to_datetime(cell, errors="coerce")
ToDatetime(cell) == IF cell <= 0 THEN NaT ELSE cell

\* comparisons with NaT are False
DateGT(a, b) == a # NaT /\ b # NaT /\ a > b
DateLE(a, b) == a # NaT /\ b # NaT /\ a <= b
DateLT(a, b) == a # NaT /\ b # NaT /\ a < b

SelectedYear == 2024
SelectedMonths == {9}

(***************************************************************************)
(* Tables                                                                  *)
(***************************************************************************)
Range(f) == {f[i] : i \in DOMAIN f}

\* the rows of t at the positions in S, in order
RECURSIVE RowsAt(_, _)
RowsAt(t, S) ==
    IF t = <<>> THEN <<>>
    ELSE LET n == Len(t)
             front == RowsAt(SubSeq(t, 1, n - 1), S)
         IN  IF n \in S THEN Append(front, t[n]) ELSE front

\* every table of at most n rows drawn from Rows
TablesOf(Rows, n) == UNION {[1..k -> Rows] : k \in 0..n}

(***************************************************************************)
(* pd.read_csv of an identifier column without a dtype: a column whose     *)
(* cells are all numeric text is parsed as numbers, so that its texts are  *)
(* the canonical renderings; any other column keeps its raw texts.         *)
(***************************************************************************)
AsciiSpace == {" ", "\t", "\n"}

RECURSIVE StripAscii(_)
StripAscii(s) ==
    IF s # <<>> /\ Head(s) \in AsciiSpace THEN StripAscii(Tail(s))
    ELSE IF s # <<>> /\ s[Len(s)] \in AsciiSpace THEN StripAscii(SubSeq(s, 1, Len(s) - 1))
    ELSE s

\* spaces* digits+ spaces*
IsIntCell(c) == IsDigits(StripAscii(c))

\* spaces* digits+ [ "." "0"* ] spaces*, or an empty cell (NaN)
IsNumCell(c) ==
    LET s == StripAscii(c)
    IN  \/ s = <<>>
        \/ IsDigits(s)
        \/ \E d \in 1..Len(s) :
              /\ s[d] = "."
              /\ IsDigits(SubSeq(s, 1, d - 1))
              /\ \A i \in (d + 1)..Len(s) : s[i] = "0"

IntPartOf(c) ==
    LET s == StripAscii(c)
    IN  IF IsDigits(s) THEN s ELSE SubSeq(s, 1, (CHOOSE d \in 1..Len(s) : s[d] = ".") - 1)

\* the dtype read_csv infers for the column
ReadCsvKind(cells) ==
    IF cells # <<>> /\ \A i \in 1..Len(cells) : IsIntCell(cells[i]) THEN "int64"
    ELSE IF cells # <<>> /\ \A i \in 1..Len(cells) : IsNumCell(cells[i]) THEN "float64"
    ELSE "object"

\* str() of the integer / of the float / the raw text
IntText(c) == StripLeadingZeros(StripAscii(c))

FloatText(c) ==
    IF StripAscii(c) = <<>> THEN NA ELSE StripLeadingZeros(IntPartOf(c)) \o <<".", "0">>

\* the column as text, cell by cell
ReadCsvColumn(cells) ==
    LET kind == ReadCsvKind(cells)
    IN  [i \in 1..Len(cells) |->
            IF kind = "int64" THEN IntText(cells[i])
            ELSE IF kind = "float64" THEN FloatText(cells[i])
            ELSE IF cells[i] = <<>> THEN NA ELSE cells[i]]

\* pd.read_csv(..., dtype={column: "string"}): the raw text, NA for an empty cell
ReadStringColumn(cells) ==
    [i \in 1..Len(cells) |-> IF cells[i] = <<>> THEN NA ELSE cells[i]]

\* pd.concat of two columns read without a dtype: int64 next to float64 becomes
\* float64, any other mix keeps each cell
ConcatCsvColumns(a, b) ==
    LET ka == ReadCsvKind(a)
        kb == ReadCsvKind(b)
    IN  IF {ka, kb} = {"int64", "float64"}
        THEN [i \in 1..Len(a) |-> FloatText(a[i])] \o [i \in 1..Len(b) |-> FloatText(b[i])]
        ELSE ReadCsvColumn(a) \o ReadCsvColumn(b)

(***************************************************************************)
(* TSYS Roster Filter                                                      *)
(***************************************************************************)
\* read_csv_bytes(files["Synoptic_TSYS"]): RangeIndex, inferred identifier column
ReadTsys(csv) ==
    LET ids == ReadCsvColumn([i \in 1..Len(csv) |-> csv[i].MerchantID])
    IN  [i \in 1..Len(csv) |-> [csv[i] EXCEPT !.MerchantID = ids[i]] @@ [idx |-> i - 1]]

TsysParseDates(df) ==
    [i \in 1..Len(df) |->
        [df[i] EXCEPT !.DateOpened = ToDatetime(@),
                      !.DateClosed = ToDatetime(@),
                      !.LastDeposit = ToDatetime(@)]]

\* 1) remove Date Opened > cutoff
TsysRemoveOpenedAfter(df, cutoff) ==
    SelectSeq(df, LAMBDA r : ~DateGT(r.DateOpened, cutoff))

\* a filter that never corrects a status
TsysNoReopen(df, cutoff) == df

\* a correction that forgets to look at the close date
TsysReopenAnyClosed(df, cutoff) ==
    [i \in 1..Len(df) |->
        IF StripLower(df[i].Status) = T_closed
        THEN [df[i] EXCEPT !.Status = T_Open]
        ELSE df[i]]

\* 2) reopen if Status=closed AND Date Closed > cutoff
TsysReopen(df, cutoff) ==
    [i \in 1..Len(df) |->
        IF StripLower(df[i].Status) = T_closed /\ DateGT(df[i].DateClosed, cutoff)
        THEN [df[i] EXCEPT !.Status = T_Open]
        ELSE df[i]]

\* a dormancy rule that forgets the rows without a deposit date
TsysRemoveOldDepositOnly(df, six) ==
    SelectSeq(df, LAMBDA r :
        ~(StripLower(r.Status) = T_closed /\ DateLE(r.LastDeposit, six)))

\* 3) remove closed AND (no deposit OR deposit <= six_months_before)
TsysRemoveDormant(df, six) ==
    SelectSeq(df, LAMBDA r :
        ~(/\ StripLower(r.Status) = T_closed
          /\ (r.LastDeposit = NaT \/ DateLE(r.LastDeposit, six))))

\* 4) remove statuses: closed, declined, cancelled
TsysRemoveStatuses(df) ==
    SelectSeq(df, LAMBDA r :
        StripLower(r.Status) \notin {T_closed, T_declined, T_cancelled})

\* 5) hard remove Rep Name
TsysHardRemove(df, agents) ==
    SelectSeq(df, LAMBDA r : StripLower(r.RepName) \notin agents)

\* drop_duplicates(subset=["Merchant ID"], keep="first")
TsysDropDuplicates(df) ==
    RowsAt(df, {i \in 1..Len(df) :
                  \A j \in 1..(i - 1) : df[j].MerchantID # df[i].MerchantID})

Agent_hard_remove_exact ==
    {T_hubwallet, T_stephany_perez, T_nigel_westbury, T_brandon_casillas}

Agent_hard_remove_data == {T_hubwallet, T_stephany_perez, T_nigel_westbury}

\* the same rules with the duplicate rule moved to the front
clean_tsys_dedup_first(tsys_df, cutoff, six) ==
    TsysHardRemove(
      TsysRemoveStatuses(
        TsysRemoveDormant(
          TsysReopen(
            TsysRemoveOpenedAfter(TsysDropDuplicates(TsysParseDates(tsys_df)),
                                  cutoff),
            cutoff),
          six)),
      Agent_hard_remove_exact)

\* app.py
clean_tsys_synoptic_exact(tsys_df, cutoff, six) ==
    TsysDropDuplicates(
      TsysHardRemove(
        TsysRemoveStatuses(
          TsysRemoveDormant(
            TsysReopen(
              TsysRemoveOpenedAfter(TsysParseDates(tsys_df), cutoff),
              cutoff),
            six)),
        Agent_hard_remove_exact))

\* appy.py line 94: synoptic_tsys[cols] = ...apply(pd.to_datetime, errors="coerce")
\* assigns the parsed date columns into the table the caller passed
clean_tsys_data_input(synoptic_tsys) == TsysParseDates(synoptic_tsys)

\* appy.py (the kept table of the pair it returns)
clean_tsys_data(synoptic_tsys, cutoff) ==
    TsysDropDuplicates(
      TsysHardRemove(
        TsysRemoveStatuses(
          TsysRemoveDormant(
            TsysReopen(
              TsysRemoveOpenedAfter(TsysParseDates(synoptic_tsys), cutoff),
              cutoff),
            six_months_before_tsys_data(cutoff))),
        Agent_hard_remove_data))

\* Rows of a TSYS file: every combination of the dates and the status under a
\* rep that no rule names; the rows of a blacklisted rep; and one plain open
\* row under each other identifier text.
T_7 == <<"7">>
T_Closed_sp == <<" ", "C", "l", "o", "s", "e", "d">>
T_Declined == <<"D", "e", "c", "l", "i", "n", "e", "d">>
T_Ann == <<"A", "n", "n">>
T_HubWallet_sp == <<" ", "H", "u", "b", "W", "a", "l", "l", "e", "t">>

TsysRuleRows ==
    [MerchantID : {T_7},
     DateOpened : {20240901, 20241001},
     Status : {T_Closed_sp, T_Open, T_Declined},
     DateClosed : {0, 20241015},
     LastDeposit : {-1, 20240331, 20240901},
     RepName : {T_Ann}]

TsysRepRows ==
    [MerchantID : {T_7},
     DateOpened : {20240901},
     Status : {T_Closed_sp, T_Open},
     DateClosed : {0, 20241015},
     LastDeposit : {20240901},
     RepName : {T_HubWallet_sp}]

TsysIdRows ==
    [MerchantID : {<<"7", ".", "0">>, <<" ", "7">>, <<"7", "a">>, <<"8">>},
     DateOpened : {20240901},
     Status : {T_Open},
     DateClosed : {0},
     LastDeposit : {20240901},
     RepName : {T_Ann}]

TsysRowInputs == TsysRuleRows \cup TsysRepRows \cup TsysIdRows

InitTsys ==
    /\ pc = "tsys0"
    /\ IdleRest
    /\ IdleNorm
    /\ selected_month_year \in {MonthEndOf(SelectedYear, m) : m \in SelectedMonths}
    /\ tsys_csv \in TablesOf(TsysRowInputs, MaxTsysRows)
    /\ kept_tsys = <<>>
    /\ IdleFiserv
    /\ IdleZoho

\* app.py run_step1_pipeline: read the TSYS file and filter it
CleanTsysExact ==
    /\ pc = "tsys0"
    /\ kept_tsys' = clean_tsys_synoptic_exact(ReadTsys(tsys_csv), selected_month_year,
                                              six_months_before(selected_month_year))
    /\ pc' = "tsys_app"
    /\ tsys_raw' = ReadTsys(tsys_csv)
    /\ UNCHANGED <<otherVars, fiserv_raw>>
    /\ UNCHANGED <<selected_month_year, normVars, tsys_csv, fiservVars, zohoVars>>

\* appy.py process_step1_files: filter the TSYS file already read
CleanTsysData ==
    /\ pc = "tsys0"
    /\ kept_tsys' = clean_tsys_data(ReadTsys(tsys_csv), selected_month_year)
    /\ pc' = "tsys_appy"
    /\ tsys_raw' = clean_tsys_data_input(ReadTsys(tsys_csv))
    /\ UNCHANGED <<otherVars, fiserv_raw>>
    /\ UNCHANGED <<selected_month_year, normVars, tsys_csv, fiservVars, zohoVars>>

NextTsys == CleanTsysExact \/ CleanTsysData

SpecTsys == InitTsys /\ [][NextTsys]_vars

(***************************************************************************)
(* Claims about the TSYS Roster Filter                                     *)
(***************************************************************************)
TsysDone == pc \in {"tsys_app", "tsys_appy"}

\* the DataFrame the filter was given
TsysInput == ReadTsys(tsys_csv)

TsysKeptIdx == {kept_tsys[k].idx : k \in 1..Len(kept_tsys)}

\* the dormancy threshold and the rep blacklist of the program that ran
TsysSix ==
    IF pc = "tsys_app" THEN six_months_before(selected_month_year)
    ELSE six_months_before_tsys_data(selected_month_year)

TsysBlacklist ==
    IF pc = "tsys_app" THEN Agent_hard_remove_exact ELSE Agent_hard_remove_data

\* C4 as stated: no two retained TSYS rows have merchant identifiers that are
\* equal after normalization.
Cex_C4_KeptUniqueNormalized ==
    TsysDone =>
        \A i, j \in 1..Len(kept_tsys) :
            i < j => clean_id_numeric(kept_tsys[i].MerchantID)
                        # clean_id_numeric(kept_tsys[j].MerchantID)

\* what the code does guarantee: the retained raw identifiers are distinct
TsysKeptUniqueRaw ==
    TsysDone =>
        \A i, j \in 1..Len(kept_tsys) :
            i < j => kept_tsys[i].MerchantID # kept_tsys[j].MerchantID

\* a closed row whose close date is after the cutoff and whose last deposit
\* is after the dormancy threshold, which the open-date, rep and duplicate
\* rules do not exclude
ReopenCase(r) ==
    /\ StripLower(r.Status) = T_closed
    /\ DateGT(ToDatetime(r.DateClosed), selected_month_year)
    /\ DateGT(ToDatetime(r.LastDeposit), TsysSix)
    /\ ~DateGT(ToDatetime(r.DateOpened), selected_month_year)
    /\ StripLower(r.RepName) \notin TsysBlacklist
    /\ ~\E k \in 1..Len(kept_tsys) :
          kept_tsys[k].MerchantID = r.MerchantID /\ kept_tsys[k].idx < r.idx

\* C5: such a row is retained, with its status rewritten to "Open".
Thm_C5_ReopenedRowKept ==
    TsysDone =>
        \A i \in 1..Len(TsysInput) :
            ReopenCase(TsysInput[i]) =>
                \E k \in 1..Len(kept_tsys) :
                    /\ kept_tsys[k].idx = TsysInput[i].idx
                    /\ kept_tsys[k].Status = T_Open

\* C5 witness: the filter ran on a table holding such a row, after a row it
\* removed, and retained it as "Open".
Wit_C5_ReopenedRowKept ==
    /\ TsysDone
    /\ Len(TsysInput) = 2
    /\ ReopenCase(TsysInput[2])
    /\ TsysKeptIdx = {1}
    /\ kept_tsys[1].Status = T_Open

\* C6 as stated: a closed row without a last-deposit date is never retained,
\* whatever its other fields.
Cex_C6_ClosedNoDepositRemoved ==
    TsysDone =>
        \A i \in 1..Len(TsysInput) :
            (/\ StripLower(TsysInput[i].Status) = T_closed
             /\ ToDatetime(TsysInput[i].LastDeposit) = NaT)
            => TsysInput[i].idx \notin TsysKeptIdx

\* C6 amended: a closed row without a last-deposit date whose close date is
\* not after the cutoff (or is missing) is never retained, whatever its open
\* date, rep name and identifier.
Thm_C6_ClosedNoDepositNotReopenedRemoved ==
    TsysDone =>
        \A i \in 1..Len(TsysInput) :
            (/\ StripLower(TsysInput[i].Status) = T_closed
             /\ ToDatetime(TsysInput[i].LastDeposit) = NaT
             /\ ~DateGT(ToDatetime(TsysInput[i].DateClosed), selected_month_year))
            => TsysInput[i].idx \notin TsysKeptIdx

\* C6 witness: the filter removed such a row and retained the row after it.
Wit_C6_ClosedNoDepositRemoved ==
    /\ TsysDone
    /\ Len(TsysInput) = 2
    /\ StripLower(TsysInput[1].Status) = T_closed
    /\ ToDatetime(TsysInput[1].LastDeposit) = NaT
    /\ ~DateGT(ToDatetime(TsysInput[1].DateClosed), selected_month_year)
    /\ ~DateGT(ToDatetime(TsysInput[1].DateOpened), selected_month_year)
    /\ TsysKeptIdx = {1}

(***************************************************************************)
(* Text Sanitizer                                                          *)
(***************************************************************************)
\* .fillna("").astype(str).str.replace("\xa0", "").str.replace(<A-circumflex>, "").str.strip()
\* ("~" stands for the no-break space, "^" for the mis-decoded A-circumflex)
CleanNbspCell(c) ==
    Strip(SelectSeq(FillNa(c), LAMBDA ch : ch \notin {"~", "^"}))

(***************************************************************************)
(* Fiserv Roster Filter, app.py                                            *)
(***************************************************************************)
T_close == <<"c", "l", "o", "s", "e">>
T_IS02 == <<"I", "S", "0", "2">>
Agent_to_keep ==
    {<<"2", "0", "3", "0">>, <<"3", "0", "3", "0">>,
     <<"4", "0", "3", "0">>, <<"5", "0", "3", "0">>}

\* read_csv_bytes(files["Synoptic_Fiserv"], dtype={"Merchant #": "string"})
ReadFiservExact(csv) ==
    LET ids == ReadStringColumn([i \in 1..Len(csv) |-> csv[i].MerchantNo])
        agents == ReadCsvColumn([i \in 1..Len(csv) |-> csv[i].SalesAgent])
    IN  [i \in 1..Len(csv) |->
            [csv[i] EXCEPT !.MerchantNo = ids[i],
                           !.SalesAgent = agents[i],
                           !.MerchantStatus = IF @ = <<>> THEN NA ELSE @]
            @@ [idx |-> i - 1]]

\* clean_nbsp: the object columns (Merchant # has dtype "string" and is skipped)
FiservCleanNbsp(df) ==
    [i \in 1..Len(df) |->
        [df[i] EXCEPT !.MerchantStatus = CleanNbspCell(@),
                      !.SalesAgent = IF @ = NA THEN NA ELSE CleanNbspCell(@)]]

\* drop_duplicates(subset="Merchant #")
FiservDropDuplicates(df) ==
    RowsAt(df, {i \in 1..Len(df) :
                  \A j \in 1..(i - 1) : df[j].MerchantNo # df[i].MerchantNo})

FiservParseDates(df) ==
    [i \in 1..Len(df) |->
        [df[i] EXCEPT !.OpenDate = ToDatetime(@),
                      !.CloseDate = ToDatetime(@),
                      !.LastBatch = ToDatetime(@)]]

\* 1) remove Open Date > cutoff
FiservOpenedAfter(r, cutoff) == DateGT(r.OpenDate, cutoff)

\* 2) reopen: close + Close Date > cutoff => Open
FiservReopen(df, cutoff) ==
    [i \in 1..Len(df) |->
        IF StripLower(df[i].MerchantStatus) = T_close /\ DateGT(df[i].CloseDate, cutoff)
        THEN [df[i] EXCEPT !.MerchantStatus = T_Open]
        ELSE df[i]]

\* 6) agent filtering: keep letters, or numeric and on the allow-list
FiservKeepAgentExact(r) ==
    LET sa == StripText(r.SalesAgent)
    IN  \/ \E i \in 1..Len(sa) : IsLetter(sa[i])
        \/ IsDigits(sa) /\ sa \in Agent_to_keep

\* hard remove IS02
FiservIsHardRemoved(r) == StripText(r.SalesAgent) = T_IS02

\* digits-only Merchant #: astype(str), drop non-ASCII, drop non-digits
FiservDigitsOnly(df) ==
    [i \in 1..Len(df) |-> [df[i] EXCEPT !.MerchantNo = DigitsOnly(@)]]

clean_fiserv_synoptic_exact(fiserv_df, cutoff) ==
    LET df == FiservParseDates(FiservDropDuplicates(FiservCleanNbsp(fiserv_df)))
        kept1 == SelectSeq(df, LAMBDA r : ~FiservOpenedAfter(r, cutoff))
        kept2 == FiservReopen(kept1, cutoff)
        kept3 == SelectSeq(kept2, FiservKeepAgentExact)
        kept4 == SelectSeq(kept3, LAMBDA r : ~FiservIsHardRemoved(r))
    IN  FiservDigitsOnly(kept4)

(***************************************************************************)
(* Partner Roster step of run_step1_pipeline, app.py                       *)
(***************************************************************************)
\* PASO = pd.concat([paso_3900, paso_1800], ignore_index=True), identifiers stripped
PasoMergedExact(p1800, p3900) ==
    LET cells == ReadStringColumn(p3900) \o ReadStringColumn(p1800)
    IN  [i \in 1..Len(cells) |->
            [idx |-> i - 1,
             MerchantNumber |-> IF cells[i] = NA THEN NA ELSE Strip(cells[i])]]

\* kept_fiserv["Merchant #"].astype("string").str.replace("\xa0", "").str.strip()
FiservStripIds(kept) ==
    [i \in 1..Len(kept) |->
        [kept[i] EXCEPT !.MerchantNo = Strip(SelectSeq(@, LAMBDA ch : ch # "~"))]]

\* PASO[PASO["MerchantNumber"].isin(kept_fiserv["Merchant #"])]
PasoKeptExact(PASO, kept) ==
    SelectSeq(PASO, LAMBDA r :
        r.MerchantNumber # NA
        /\ r.MerchantNumber \in {kept[k].MerchantNo : k \in 1..Len(kept)})

(***************************************************************************)
(* Fiserv Roster Filter, appy.py                                           *)
(***************************************************************************)
\* pd.read_csv(synoptic_fiserv, skiprows=1): every column inferred
ReadFiservData(csv) ==
    LET ids == ReadCsvColumn([i \in 1..Len(csv) |-> csv[i].MerchantNo])
        agents == ReadCsvColumn([i \in 1..Len(csv) |-> csv[i].SalesAgent])
    IN  [i \in 1..Len(csv) |->
            [csv[i] EXCEPT !.MerchantNo = ids[i],
                           !.SalesAgent = agents[i],
                           !.MerchantStatus = IF @ = <<>> THEN NA ELSE @]
            @@ [idx |-> i - 1]]

\* Remove closed with old batch
FiservIsDormant(r, six) ==
    /\ StripLower(r.MerchantStatus) = T_close
    /\ (r.LastBatch = NaT \/ DateLE(r.LastBatch, six))

\* Agent filtering: numeric and not on the allow-list
FiservRemoveNumericData(r) ==
    LET sa == StripText(r.SalesAgent)
    IN  IsDigits(sa) /\ sa \notin Agent_to_keep

\* paso_merchants = PASO["MerchantNumber"].dropna().astype(str).str.strip().unique()
PasoMerchantsData(s1, s2) ==
    LET cells == ConcatCsvColumns(s1, s2)
    IN  {Strip(cells[i]) : i \in {j \in 1..Len(cells) : cells[j] # NA}}

\* a PASO comparison that reinstates only the closed rows
FiservBackToKeptClosedOnly(removed, merchants) ==
    SelectSeq(removed, LAMBDA r :
        StripText(r.MerchantNo) \in merchants /\ StripLower(r.MerchantStatus) = T_close)

\* PASO comparison: removed rows whose identifier is in the Partner Roster
FiservBackToKept(removed, merchants) ==
    SelectSeq(removed, LAMBDA r : StripText(r.MerchantNo) \in merchants)

\* the kept table of the triple it returns
clean_fiserv_data(synoptic_fiserv, paso_s1, paso_s2, cutoff) ==
    LET df == FiservParseDates(FiservDropDuplicates(synoptic_fiserv))
        removed1 == SelectSeq(df, LAMBDA r : FiservOpenedAfter(r, cutoff))
        kept1 == SelectSeq(df, LAMBDA r : ~FiservOpenedAfter(r, cutoff))
        kept2 == FiservReopen(kept1, cutoff)
        six == six_months_before(cutoff)
        removed2 == SelectSeq(kept2, LAMBDA r : FiservIsDormant(r, six))
        kept3 == SelectSeq(kept2, LAMBDA r : ~FiservIsDormant(r, six))
        removed3 == SelectSeq(kept3, FiservRemoveNumericData)
        kept4 == SelectSeq(kept3, LAMBDA r : ~FiservRemoveNumericData(r))
        removed4 == SelectSeq(kept4, FiservIsHardRemoved)
        kept5 == SelectSeq(kept4, LAMBDA r : ~FiservIsHardRemoved(r))
        kept6 == FiservDropDuplicates(kept5)
        removed == removed1 \o removed2 \o removed3 \o removed4
    IN  kept6 \o FiservBackToKept(removed, PasoMerchantsData(paso_s1, paso_s2))

(***************************************************************************)
(* Runs of the Fiserv Roster Filter and the Partner Roster step            *)
(***************************************************************************)
T_8 == <<"8">>
T_Close_sp == <<"C", "l", "o", "s", "e", " ">>
T_AB12 == <<"A", "B", "1", "2">>
T_1234 == <<"1", "2", "3", "4">>
T_2030 == <<"2", "0", "3", "0">>

\* closed rows of an external agent, open date in the period
FiservCloseRows ==
    [MerchantNo : {T_7},
     OpenDate : {20240901},
     CloseDate : {0, 20241015},
     LastBatch : {-1, 20240331, 20240901},
     MerchantStatus : {T_Close_sp},
     SalesAgent : {T_AB12}]

\* rows opened after the cutoff
FiservLateRows ==
    [MerchantNo : {T_7},
     OpenDate : {20241001},
     CloseDate : {0},
     LastBatch : {20240901},
     MerchantStatus : {T_Close_sp, T_Open},
     SalesAgent : {T_AB12}]

\* open rows under each kind of agent code
FiservAgentRows ==
    [MerchantNo : {T_7},
     OpenDate : {20240901},
     CloseDate : {0},
     LastBatch : {20240901},
     MerchantStatus : {T_Open},
     SalesAgent : {T_AB12, T_2030, T_1234, T_IS02, <<>>, <<"#">>}]

\* rows of a second merchant
FiservOtherRows ==
    [MerchantNo : {T_8},
     OpenDate : {20240901},
     CloseDate : {0},
     LastBatch : {20240331},
     MerchantStatus : {T_Close_sp, T_Open},
     SalesAgent : {T_AB12, T_1234}]

FiservRowInputs ==
    FiservCloseRows \cup FiservLateRows \cup FiservAgentRows \cup FiservOtherRows

\* the MerchantNumber cells of a Partner extract
PasoExtracts == {<<>>, <<T_7>>, <<T_8>>}

InitFiserv ==
    /\ pc = "fiserv0"
    /\ IdleRest
    /\ IdleNorm
    /\ IdleTsys
    /\ selected_month_year \in {MonthEndOf(SelectedYear, m) : m \in SelectedMonths}
    /\ fiserv_csv \in TablesOf(FiservRowInputs, MaxFiservRows)
    /\ paso_1800 \in PasoExtracts
    /\ paso_3900 \in PasoExtracts
    /\ kept_fiserv = <<>>
    /\ PASO_kept = <<>>
    /\ IdleZoho

\* app.py run_step1_pipeline: read the Fiserv file and filter it
CleanFiservExact ==
    /\ pc = "fiserv0"
    /\ kept_fiserv' = clean_fiserv_synoptic_exact(ReadFiservExact(fiserv_csv),
                                                  selected_month_year)
    /\ pc' = "fiserv_app"
    /\ fiserv_raw' = ReadFiservExact(fiserv_csv)
    /\ UNCHANGED <<otherVars, tsys_raw>>
    /\ UNCHANGED <<selected_month_year, normVars, tsysVars, zohoVars,
                   fiserv_csv, paso_1800, paso_3900, PASO_kept>>

\* app.py run_step1_pipeline: merge the Partner extracts, strip the Fiserv
\* identifiers, keep the Partner rows of retained Fiserv merchants
PasoOutput ==
    /\ pc = "fiserv_app"
    /\ kept_fiserv' = FiservStripIds(kept_fiserv)
    /\ PASO_kept' = PasoKeptExact(PasoMergedExact(paso_1800, paso_3900),
                                  FiservStripIds(kept_fiserv))
    /\ pc' = "paso_app"
    /\ UNCHANGED restVars
    /\ UNCHANGED <<selected_month_year, normVars, tsysVars, zohoVars,
                   fiserv_csv, paso_1800, paso_3900>>

\* appy.py process_step1_files: filter the Fiserv file with the Partner extracts
CleanFiservData ==
    /\ pc = "fiserv0"
    /\ kept_fiserv' = clean_fiserv_data(ReadFiservData(fiserv_csv), paso_1800, paso_3900,
                                        selected_month_year)
    /\ pc' = "fiserv_appy"
    /\ fiserv_raw' = ReadFiservData(fiserv_csv)
    /\ UNCHANGED <<otherVars, tsys_raw>>
    /\ UNCHANGED <<selected_month_year, normVars, tsysVars, zohoVars,
                   fiserv_csv, paso_1800, paso_3900, PASO_kept>>

NextFiserv == CleanFiservExact \/ PasoOutput \/ CleanFiservData

SpecFiserv == InitFiserv /\ [][NextFiserv]_vars

(***************************************************************************)
(* Claims about the Fiserv Roster Filter                                   *)
(***************************************************************************)
FiservDone == pc \in {"fiserv_app", "fiserv_appy"}

\* the DataFrame the filter was given
FiservInput ==
    IF pc = "fiserv_appy" THEN ReadFiservData(fiserv_csv) ELSE ReadFiservExact(fiserv_csv)

FiservKeptIdx == {kept_fiserv[k].idx : k \in 1..Len(kept_fiserv)}

\* the normalized identifiers of the merged Partner Roster
PartnerIds ==
    {clean_id_numeric(c) : c \in Range(paso_1800) \cup Range(paso_3900)} \ {NA}

InPartnerRoster(r) == clean_id_numeric(r.MerchantNo) \in PartnerIds

\* status "close" that the correction leaves alone
StaysClosed(r) ==
    /\ StripLower(r.MerchantStatus) = T_close
    /\ ~DateGT(ToDatetime(r.CloseDate), selected_month_year)

OpenedInPeriod(r) == ~DateGT(ToDatetime(r.OpenDate), selected_month_year)

\* the sales-agent rule keeps the row
AgentInScope(r) ==
    LET sa == StripText(r.SalesAgent)
    IN  /\ (\E i \in 1..Len(sa) : IsLetter(sa[i])) \/ sa \in Agent_to_keep
        /\ sa # T_IS02

\* the sales-agent rule of either program removes the row
AgentRemoved(r) ==
    LET sa == StripText(r.SalesAgent)
    IN  (IsDigits(sa) /\ sa \notin Agent_to_keep) \/ sa = T_IS02

FirstOccurrence(df, i) == \A j \in 1..(i - 1) : df[j].MerchantNo # df[i].MerchantNo

\* a closed row in the Partner Roster is retained
ClosedInPartnerKept ==
    FiservDone =>
        \A i \in 1..Len(FiservInput) :
            LET r == FiservInput[i]
            IN  (/\ StaysClosed(r) /\ OpenedInPeriod(r) /\ AgentInScope(r)
                 /\ FirstOccurrence(FiservInput, i) /\ InPartnerRoster(r))
                => r.idx \in FiservKeptIdx

\* a closed row absent from the Partner Roster is removed
ClosedNotInPartnerRemoved ==
    FiservDone =>
        \A i \in 1..Len(FiservInput) :
            LET r == FiservInput[i]
            IN  (/\ StaysClosed(r) /\ OpenedInPeriod(r) /\ AgentInScope(r)
                 /\ ~InPartnerRoster(r))
                => r.idx \notin FiservKeptIdx

\* rows that the open-date or sales-agent rule removes are never reinstated
RuleRemovedStayRemoved ==
    FiservDone =>
        \A i \in 1..Len(FiservInput) :
            LET r == FiservInput[i]
            IN  (~OpenedInPeriod(r) \/ AgentRemoved(r)) => r.idx \notin FiservKeptIdx

\* C7 as stated: a row with status "close" that the open-date and sales-agent
\* rules keep is retained when its identifier is in the merged Partner Roster
\* and removed when it is not, and the Partner Roster exception never
\* reinstates a row removed by the open-date or sales-agent rules.
Cex_C7_ClosedPartnerException ==
    ClosedInPartnerKept /\ ClosedNotInPartnerRemoved /\ RuleRemovedStayRemoved

(***************************************************************************)
(* Numbers as text                                                         *)
(***************************************************************************)
DigitChars == <<"0", "1", "2", "3", "4", "5", "6", "7", "8", "9">>

\* str(n) for n >= 0
RECURSIVE IntStr(_)
IntStr(n) ==
    IF n < 10 THEN <<DigitChars[n + 1]>>
    ELSE Append(IntStr(n \div 10), DigitChars[(n % 10) + 1])

TwoDigits(n) == <<DigitChars[(n \div 10) + 1], DigitChars[(n % 10) + 1]>>

\* Timestamp.strftime("%m/%d/%Y"); NaT gives a null
FormatDate(t) ==
    IF t = NaT THEN NA
    ELSE TwoDigits(MonthOf(t)) \o <<"/">> \o TwoDigits(DayOf(t)) \o <<"/">>
         \o TwoDigits(YearOf(t) \div 100) \o TwoDigits(YearOf(t) % 100)

\* the cell is text that pd.to_numeric parses: digits+ [ "." digits* ]
IsNumericText(c) ==
    LET s == StripAscii(FillNa(c))
    IN  \/ IsDigits(s)
        \/ \E d \in 1..Len(s) :
              /\ s[d] = "."
              /\ IsDigits(SubSeq(s, 1, d - 1))
              /\ \A i \in (d + 1)..Len(s) : IsDigit(s[i])

\* pd.to_numeric(cell, errors="coerce").fillna(0) of a whole number or of text
\* that is no number: NaN becomes 0
ToNumeric(c) ==
    IF c # NA /\ IsNumCell(c) /\ StripAscii(c) # <<>> THEN ToNat(IntPartOf(c)) ELSE 0

\* pd.to_numeric(cell, errors="coerce").fillna(0).astype(int): NaN becomes 0,
\* a fraction is truncated
ToNumericInt(c) ==
    IF c # NA /\ IsNumericText(c) THEN ToNat(IntPartOf(c)) ELSE 0

(***************************************************************************)
(* Fee Ledger Filter & Formatter (process_zoho_exact)                      *)
(***************************************************************************)
T_Approved == <<"A", "p", "p", "r", "o", "v", "e", "d">>
T_n_a == <<"n", "/", "a">>
T_is20 == <<"i", "s", "2", "0">>
T_fiserv == <<"f", "i", "s", "e", "r", "v">>
T_tsys == <<"t", "s", "y", "s">>
agents_to_remove ==
    {<<"I", "S", "2", "0">>, <<"I", "S", "2", "1">>, <<"I", "S", "2", "2">>,
     <<"I", "S", "2", "3">>, <<"I", "S", "2", "4">>}
internal_set == {}
RecurringFeeCode == 2

\* the blank Step 1 placeholder "" and a numeric Step 1 value
Blank == <<>>
Num(n) == <<n>>

\* read_excel_bytes(files["Zoho_All_Fees"], dtype={"Merchant Number": "string",
\* "Sales Id": "string"}): an empty cell is a null
ReadZoho(xlsx) ==
    [i \in 1..Len(xlsx) |->
        [f \in DOMAIN xlsx[i] |->
            IF f \in {"DateApproved", "DateClosed"} THEN xlsx[i][f]
            ELSE IF xlsx[i][f] = <<>> THEN NA ELSE xlsx[i][f]]
        @@ [idx |-> i - 1]]

\* date parsing and the fillna("").astype("string").str.strip() of three columns
ZohoPrepare(df) ==
    [i \in 1..Len(df) |->
        [df[i] EXCEPT !.DateApproved = ToDatetime(@),
                      !.DateClosed = ToDatetime(@),
                      !.SalesId = StripText(@),
                      !.MerchantNumber = StripText(@),
                      !.AccountStatus = StripText(@)]]

HasLetter(s) == \E i \in 1..Len(s) : IsLetter(s[i])

\* FILTER 1: Sales Id keep letters OR numeric+internal
ZohoKeepSalesId(r) ==
    HasLetter(r.SalesId) \/ (IsDigits(r.SalesId) /\ r.SalesId \in internal_set)

\* FILTER 2: Date Approved > cutoff remove
ZohoApprovedAfter(r, cutoff) == DateGT(r.DateApproved, cutoff)

\* a status correction that rewrites nothing
ZohoReapproveNone(df, cutoff) == df

\* FILTER 3: Closed + Date Closed > cutoff => Approved
ZohoReapprove(df, cutoff) ==
    [i \in 1..Len(df) |->
        IF Lower(df[i].AccountStatus) = T_closed /\ DateGT(df[i].DateClosed, cutoff)
        THEN [df[i] EXCEPT !.AccountStatus = T_Approved]
        ELSE df[i]]

\* FILTER 4: remove statuses
ZohoStatusRemoved(r) == Lower(r.AccountStatus) \in {T_closed, T_declined, T_n_a, <<>>}

\* FILTER 5: remove numeric Sales Id except internal
ZohoNumericSalesId(r) == IsDigits(Strip(r.SalesId)) /\ Strip(r.SalesId) \notin internal_set

\* FILTER 6: hard remove is20
ZohoHardRemoved(r) == Lower(Strip(r.SalesId)) = T_is20

\* valid_merchants: the normalized identifiers of both retained rosters
ValidMerchants(keptT, keptF) ==
    ({clean_id_numeric(keptT[k].MerchantID) : k \in 1..Len(keptT)}
        \cup {clean_id_numeric(keptF[k].MerchantNo) : k \in 1..Len(keptF)}) \ {NA}

\* an intersection step that lets every row through
ZohoIntersectAll(df, keptT, keptF) == df

\* Intersection against TSYS/Fiserv
ZohoIntersect(df, keptT, keptF) ==
    SelectSeq(df, LAMBDA r :
        clean_id_numeric(r.MerchantNumber) \in ValidMerchants(keptT, keptF))

\* a PCI Count that compares the raw cell text with the month
PCICountRaw(raw, month) == IF StripText(raw) = IntStr(month) THEN 1 ELSE 0

\* (Recurring Fee Month .astype(str).str.strip() == str(selected_month)).astype(int)
PCICount(raw, month) == IF Strip(IntStr(ToNumericInt(raw))) = Strip(IntStr(month)) THEN 1 ELSE 0

\* Format (cell 28): the fixed and derived columns, the projection, the dates as text
ZohoFormat(df, cutoff) ==
    [i \in 1..Len(df) |->
        [idx |-> df[i].idx,
         Processor |-> df[i].Processor,
         SalesId |-> df[i].SalesId,
         MerchantNumber |-> df[i].MerchantNumber,
         AccountStatus |-> df[i].AccountStatus,
         DateApproved |-> FormatDate(df[i].DateApproved),
         DateClosed |-> FormatDate(df[i].DateClosed),
         RecurringFeeCode |-> RecurringFeeCode,
         RecurringFeeMonth |-> ToNumericInt(df[i].RecurringFeeMonth),
         PCICount |-> PCICount(df[i].RecurringFeeMonth, MonthOf(cutoff)),
         Step1 |-> Blank]]

\* zoho_final_kept before the split
ZohoFinalKept(zoho, keptT, keptF, cutoff) ==
    LET z0 == ZohoPrepare(zoho)
        z1 == SelectSeq(z0, ZohoKeepSalesId)
        z2 == SelectSeq(z1, LAMBDA r : ~ZohoApprovedAfter(r, cutoff))
        z3 == ZohoReapprove(z2, cutoff)
        z4 == SelectSeq(z3, LAMBDA r : ~ZohoStatusRemoved(r))
        z5 == SelectSeq(z4, LAMBDA r : ~ZohoNumericSalesId(r))
        z6 == SelectSeq(z5, LAMBDA r : ~ZohoHardRemoved(r))
        z7 == ZohoIntersect(z6, keptT, keptF)
        z8 == SelectSeq(z7, LAMBDA r : r.SalesId \notin agents_to_remove)
    IN  ZohoFormat(z8, cutoff)

\* split (cell 28) by processor
ZohoSplit(df, tag) == SelectSeq(df, LAMBDA r : StripLower(r.Processor) = tag)

\* the pair (Zoho_keep_Fiserv, Zoho_keep_TSYS) it returns
process_zoho_exact(zoho, keptT, keptF, cutoff) ==
    LET final == ZohoFinalKept(zoho, keptT, keptF, cutoff)
    IN  <<ZohoSplit(final, T_fiserv), ZohoSplit(final, T_tsys)>>

(***************************************************************************)
(* Rate Extract for the monthly workbook and the Step-1 lookup             *)
(***************************************************************************)
T_c == <<"c">>
T_nan == <<"n", "a", "n">>
HUBW_006 == <<"H", "U", "B", "W", "-", "0", "0", "0", "0", "0", "0", "0", "0", "0", "6">>
HUBW_124 == <<"H", "U", "B", "W", "-", "0", "0", "0", "0", "0", "0", "0", "1", "2", "4">>
HUBW_024 == <<"H", "U", "B", "W", "-", "0", "0", "0", "0", "0", "0", "0", "0", "2", "4">>
sales_rep_numbers_monthly == {HUBW_006, HUBW_124, HUBW_024}

\* read_excel_bytes(files["MEX_file"]): the identifier column is inferred
ReadMex(xlsx) ==
    LET ids == ReadCsvColumn([i \in 1..Len(xlsx) |-> xlsx[i].merchant_id])
    IN  [i \in 1..Len(xlsx) |->
            [xlsx[i] EXCEPT !.merchant_id = ids[i],
                            !.merchant_status = IF @ = <<>> THEN NA ELSE @,
                            !.sales_rep_number = IF @ = <<>> THEN NA ELSE @]
            @@ [idx |-> i - 1]]

\* astype(str) of a cell: a null becomes the text "nan"
AsStr(c) == IF c = NA THEN T_nan ELSE c

mex_for_monthly_exact(mex) ==
    LET m1 == SelectSeq(mex, LAMBDA r : StripLower(r.merchant_status) # T_c)
    IN  SelectSeq(m1, LAMBDA r : Strip(AsStr(r.sales_rep_number)) \notin sales_rep_numbers_monthly)

\* kept_mex[mex_cols].apply(pd.to_numeric, errors="coerce").fillna(0), summed row-wise
\* (the amounts of the runs below are whole numbers, which to_numeric leaves exact)
MexRowStep1(r) ==
    ToNumeric(r.visa) + ToNumeric(r.mc) + ToNumeric(r.disc) + ToNumeric(r.amex)

\* merchant_id_clean / Merchant_clean: astype(str).str.strip()
MexKey(c) == Strip(AsStr(c))

RECURSIVE SumStep1(_)
SumStep1(rows) ==
    IF rows = <<>> THEN 0 ELSE MexRowStep1(Head(rows)) + SumStep1(Tail(rows))

\* kept_mex.groupby("merchant_id_clean")["mex_step1"].sum()
MexStep1Lookup(kept) ==
    [k \in {MexKey(kept[i].merchant_id) : i \in 1..Len(kept)} |->
        SumStep1(SelectSeq(kept, LAMBDA r : MexKey(r.merchant_id) = k))]

\* Zoho_keep_TSYS["Merchant_clean"].map(mex_step1_lookup).fillna(0)
apply_mex_step1_lookup_exact(zohoT, kept) ==
    LET lookup == MexStep1Lookup(kept)
    IN  [i \in 1..Len(zohoT) |->
            [zohoT[i] EXCEPT !.Step1 =
                IF MexKey(zohoT[i].MerchantNumber) \in DOMAIN lookup
                THEN Num(lookup[MexKey(zohoT[i].MerchantNumber)])
                ELSE Num(0)]]

(***************************************************************************)
(* run_step1_pipeline, app.py, up to the monthly workbook                  *)
(***************************************************************************)
\* TSYS, Fiserv and PASO (lines 538-557)
PipelineRosters ==
    /\ pc = "pipe0"
    /\ kept_tsys' = clean_tsys_synoptic_exact(ReadTsys(tsys_csv), selected_month_year,
                                              six_months_before(selected_month_year))
    /\ LET kept == FiservStripIds(clean_fiserv_synoptic_exact(ReadFiservExact(fiserv_csv),
                                                              selected_month_year))
       IN  /\ kept_fiserv' = kept
           /\ PASO_kept' = PasoKeptExact(PasoMergedExact(paso_1800, paso_3900), kept)
    /\ pc' = "pipe1"
    /\ tsys_raw' = ReadTsys(tsys_csv)
    /\ fiserv_raw' = ReadFiservExact(fiserv_csv)
    /\ UNCHANGED otherVars
    /\ UNCHANGED <<selected_month_year, normVars, tsys_csv, fiserv_csv, paso_1800,
                   paso_3900, zohoVars>>

\* Zoho (lines 559-561)
PipelineZoho ==
    /\ pc = "pipe1"
    /\ LET out == process_zoho_exact(ReadZoho(zoho_raw), kept_tsys, kept_fiserv,
                                     selected_month_year)
       IN  /\ Zoho_keep_Fiserv' = out[1]
           /\ Zoho_keep_TSYS' = out[2]
    /\ pc' = "pipe2"
    /\ UNCHANGED restVars
    /\ UNCHANGED <<selected_month_year, normVars, tsysVars, fiservVars, zoho_raw, mex_raw,
                   kept_mex_monthly, mex_step1_lookup>>

\* MEX monthly workbook dataset + Step1 lookup (lines 563-566)
PipelineMexStep1 ==
    /\ pc = "pipe2"
    /\ LET kept == mex_for_monthly_exact(ReadMex(mex_raw))
       IN  /\ kept_mex_monthly' = kept
           /\ mex_step1_lookup' = MexStep1Lookup(kept)
           /\ Zoho_keep_TSYS' = apply_mex_step1_lookup_exact(Zoho_keep_TSYS, kept)
    /\ pc' = "pipe3"
    /\ UNCHANGED restVars
    /\ UNCHANGED <<selected_month_year, normVars, tsysVars, fiservVars, zoho_raw, mex_raw,
                   Zoho_keep_Fiserv>>

NextPipeline == PipelineRosters \/ PipelineZoho \/ PipelineMexStep1

(***************************************************************************)
(* Pipeline runs                                                           *)
(***************************************************************************)
T_TSYS == <<"T", "S", "Y", "S">>
T_Fiserv_sp == <<"F", "i", "s", "e", "r", "v", " ">>
T_IS20 == <<"I", "S", "2", "0">>
T_9 == <<"9">>
T_09 == <<"0", "9">>
T_9_0 == <<"9", ".", "0">>
T_10 == <<"1", "0">>
T_5 == <<"5">>
T_0 == <<"0">>
T_x == <<"x">>
T_7_0 == <<"7", ".", "0">>
T_7dash == <<"7", "-">>
T_sp7 == <<" ", "7">>
T_O == <<"O">>
T_C_sp == <<"C", " ">>
T_R1 == <<"R", "1">>

\* Fee Ledger rows that differ in identifier and processor
ZohoIdRows ==
    [SalesId : {T_AB12},
     MerchantNumber : {T_7, T_8, T_9, T_7_0, T_7dash},
     AccountStatus : {T_Approved},
     DateApproved : {20240101},
     DateClosed : {0},
     Processor : {T_TSYS, T_Fiserv_sp},
     RecurringFeeMonth : {T_9}]

\* Fee Ledger rows that differ in the recurring-fee month
ZohoMonthRows ==
    [SalesId : {T_AB12},
     MerchantNumber : {T_7},
     AccountStatus : {T_Approved},
     DateApproved : {20240101},
     DateClosed : {0},
     Processor : {T_TSYS},
     RecurringFeeMonth : {T_09, T_9_0, T_10, T_x, <<>>}]

\* Fee Ledger rows for the Sales Id, approval-date and status rules
ZohoRuleRows ==
    {[SalesId |-> c[1], MerchantNumber |-> T_7, AccountStatus |-> c[2],
      DateApproved |-> c[3], DateClosed |-> c[4], Processor |-> T_TSYS,
      RecurringFeeMonth |-> T_9] :
        c \in {<<T_1234, T_Approved, 20240101, 0>>,
               <<T_IS20, T_Approved, 20240101, 0>>,
               <<T_AB12, T_Approved, 20241001, 0>>,
               <<T_AB12, T_Closed_sp, 20240101, 20241015>>,
               <<T_AB12, T_Closed_sp, 20240101, 0>>}}

ZohoRowInputs == ZohoIdRows \cup ZohoMonthRows \cup ZohoRuleRows

TsysOpenRow(id, status) ==
    [MerchantID |-> id, DateOpened |-> 20240101, Status |-> status, DateClosed |-> 0,
     LastDeposit |-> 20240901, RepName |-> T_Ann]

FiservOpenRow(id, agent) ==
    [MerchantNo |-> id, OpenDate |-> 20240101, CloseDate |-> 0, LastBatch |-> 20240901,
     MerchantStatus |-> T_Open, SalesAgent |-> agent]

MexRow(id, status, rep, visa, mc) ==
    [merchant_id |-> id, merchant_status |-> status, sales_rep_number |-> rep,
     visa |-> visa, mc |-> mc, disc |-> T_0, amex |-> <<>>]

TsysFixtures ==
    {<<TsysOpenRow(T_7, T_Open)>>, <<TsysOpenRow(T_7dash, T_Open)>>,
     <<TsysOpenRow(T_7, T_Declined)>>}

FiservFixtures == {<<FiservOpenRow(T_8, T_AB12)>>, <<FiservOpenRow(T_8, T_1234)>>}

MexFixture == <<MexRow(T_7, T_O, T_R1, T_10, T_0), MexRow(T_8, T_O, T_R1, T_0, T_5)>>

ZohoFixtures ==
    {<<[SalesId |-> T_AB12, MerchantNumber |-> id, AccountStatus |-> T_Approved,
        DateApproved |-> 20240101, DateClosed |-> 0, Processor |-> T_TSYS,
        RecurringFeeMonth |-> T_9]>> : id \in {T_7, T_7_0, T_9}}

\* Rate Extract rows that differ in identifier and in the first component
MexIdRows ==
    {MexRow(id, T_O, T_R1, v[1], v[2]) :
        id \in {T_7, T_sp7, T_7dash, T_9, <<>>}, v \in {<<T_10, T_0>>, <<T_x, T_5>>}}

\* Rate Extract rows the monthly filter removes
MexRemovedRows == {MexRow(T_7, T_C_sp, T_R1, T_10, T_0), MexRow(T_7, T_O, HUBW_006, T_10, T_0)}

MexRowInputs == MexIdRows \cup MexRemovedRows

InitPipeline ==
    /\ pc = "pipe0"
    /\ IdleRest
    /\ IdleNorm
    /\ selected_month_year \in {MonthEndOf(SelectedYear, m) : m \in SelectedMonths}
    /\ kept_tsys = <<>>
    /\ paso_1800 = <<T_8>>
    /\ paso_3900 = <<>>
    /\ kept_fiserv = <<>>
    /\ PASO_kept = <<>>
    /\ Zoho_keep_Fiserv = <<>>
    /\ Zoho_keep_TSYS = <<>>
    /\ kept_mex_monthly = <<>>
    /\ mex_step1_lookup = <<>>

\* the pipeline over Fee Ledger files
InitZoho ==
    /\ InitPipeline
    /\ tsys_csv \in TsysFixtures
    /\ fiserv_csv \in FiservFixtures
    /\ zoho_raw \in TablesOf(ZohoRowInputs, MaxZohoRows)
    /\ mex_raw = MexFixture

SpecZoho == InitZoho /\ [][NextPipeline]_vars

\* the pipeline over Rate Extract files
InitMex ==
    /\ InitPipeline
    /\ tsys_csv = <<TsysOpenRow(T_7, T_Open)>>
    /\ fiserv_csv = <<FiservOpenRow(T_8, T_AB12)>>
    /\ zoho_raw \in ZohoFixtures
    /\ mex_raw \in TablesOf(MexRowInputs, MaxMexRows)

SpecMex == InitMex /\ [][NextPipeline]_vars

(***************************************************************************)
(* Fee Ledger and Step-1 properties                                        *)
(***************************************************************************)
ZohoDone == pc \in {"pipe2", "pipe3"}
MexDone == pc = "pipe3"

\* the rows of both Fee Ledger output tables
ZohoOutputRows ==
    {Zoho_keep_Fiserv[k] : k \in 1..Len(Zoho_keep_Fiserv)}
        \cup {Zoho_keep_TSYS[k] : k \in 1..Len(Zoho_keep_TSYS)}

\* the cell's digits-only form is the digits-only form of a retained TSYS or
\* Fiserv identifier
InRetainedRosters(cell) ==
    /\ clean_id_numeric(cell) # NA
    /\ \/ \E k \in 1..Len(kept_tsys) :
             clean_id_numeric(kept_tsys[k].MerchantID) = clean_id_numeric(cell)
       \/ \E k \in 1..Len(kept_fiserv) :
             clean_id_numeric(kept_fiserv[k].MerchantNo) = clean_id_numeric(cell)

\* C1: every row of either Fee Ledger output table has a Merchant Number whose
\* digits-only form belongs to the union of the digits-only identifiers retained by
\* the TSYS and the Fiserv roster filters, and a Fee Ledger row whose identifier
\* is in neither roster is not in the output.
Thm_C1_OutputWithinRosters ==
    ZohoDone =>
        /\ \A r \in ZohoOutputRows : InRetainedRosters(r.MerchantNumber)
        /\ \A i \in 1..Len(zoho_raw) :
              ~InRetainedRosters(StripText(zoho_raw[i].MerchantNumber))
                  => \A r \in ZohoOutputRows : r.idx # i - 1

\* two Fee Ledger rows that pass every other rule, one in a roster and one in
\* neither: one output row
Wit_C1_OneRowExcluded ==
    /\ pc = "pipe2"
    /\ Len(zoho_raw) = 2
    /\ \A i \in 1..2 : zoho_raw[i] \in ZohoIdRows
    /\ \E i \in 1..2 : zoho_raw[i].MerchantNumber = T_9
    /\ Cardinality(ZohoOutputRows) = 1
    /\ \A r \in ZohoOutputRows : zoho_raw[r.idx + 1].MerchantNumber # T_9

\* C8: in every Fee Ledger output row PCI Count is 1 exactly when the coerced
\* Recurring Fee Month (0 for a non-numeric or empty cell, 9 for "09") equals the
\* month number of the cutoff date, and 0 otherwise.
Thm_C8_PCICountIsMonthMatch ==
    ZohoDone =>
        \A r \in ZohoOutputRows :
            /\ r.PCICount \in {0, 1}
            /\ r.PCICount = 1 <=> r.RecurringFeeMonth = MonthOf(selected_month_year)
            /\ zoho_raw[r.idx + 1].RecurringFeeMonth \in {T_x, <<>>} => r.RecurringFeeMonth = 0
            /\ zoho_raw[r.idx + 1].RecurringFeeMonth = T_09 => r.RecurringFeeMonth = 9

\* an output with a row counted for "09" and a row not counted for a cell that
\* is no number
Wit_C8_CountedAndNotCounted ==
    /\ pc = "pipe2"
    /\ \E r \in ZohoOutputRows :
          zoho_raw[r.idx + 1].RecurringFeeMonth = T_09 /\ r.PCICount = 1
    /\ \E r \in ZohoOutputRows :
          zoho_raw[r.idx + 1].RecurringFeeMonth = T_x /\ r.PCICount = 0

\* the sum of the Step-1 values of the retained Rate Extract rows whose
\* digits-only identifier is n
NormalizedAggregate(n) ==
    SumStep1(SelectSeq(kept_mex_monthly, LAMBDA r : clean_id_numeric(r.merchant_id) = n))

\* C9: the Step-1 aggregate maps each digits-only merchant identifier to the sum,
\* over all retained Rate Extract rows with that digits-only identifier, of the
\* rows' four components.
Cex_C9_AggregateByNormalizedId ==
    MexDone =>
        \A i \in 1..Len(kept_mex_monthly) :
            LET n == clean_id_numeric(kept_mex_monthly[i].merchant_id)
            IN  n # NA =>
                    /\ n \in DOMAIN mex_step1_lookup
                    /\ mex_step1_lookup[n] = NormalizedAggregate(n)

\* C10: every row of both Fee Ledger output tables carries a numeric Step 1, the
\* aggregate of its digits-only merchant identifier or 0 when no Rate Extract
\* row matches, and never the blank placeholder.
Cex_C10_EveryRowHasStep1 ==
    MexDone =>
        \A r \in ZohoOutputRows :
            /\ r.Step1 # Blank
            /\ r.Step1 = Num(NormalizedAggregate(clean_id_numeric(r.MerchantNumber)))

(***************************************************************************)
(* Wireless-Usage Extractor (build_wireless_count_sheet_exact)             *)
(***************************************************************************)
\* positions where a digit run starts
DigitRunStarts(s) == {i \in 1..Len(s) : IsDigit(s[i])}

Min(S) == CHOOSE x \in S : \A y \in S : x <= y

RECURSIVE DigitRunFrom(_, _)
DigitRunFrom(s, i) ==
    IF i <= Len(s) /\ IsDigit(s[i]) THEN <<s[i]>> \o DigitRunFrom(s, i + 1) ELSE <<>>

\* str.extract(r"(\d+)")[0]: the first digit run, a null when there is none
ExtractDigits(c) ==
    IF c = NA \/ DigitRunStarts(c) = {} THEN NA
    ELSE DigitRunFrom(c, Min(DigitRunStarts(c)))

\* the position of the first ")" after position p, 0 when there is none
NextClose(s, p) ==
    IF \E j \in (p + 1)..Len(s) : s[j] = ")"
    THEN Min({j \in (p + 1)..Len(s) : s[j] = ")"})
    ELSE 0

\* positions of a "(" that the pattern \(\s*([^)]+)\s*\) matches from: at least one
\* character before the next ")"
TokenStarts(s) == {p \in 1..Len(s) : s[p] = "(" /\ NextClose(s, p) > p + 1}

\* the group ([^)]+): \s* takes the leading whitespace, the group the rest up
\* to the ")", trailing whitespace included; when all of it is whitespace the group
\* is its last character
TokenGroup(inner) ==
    IF LStrip(inner) # <<>> THEN LStrip(inner) ELSE <<inner[Len(inner)]>>

\* str.extract(r"\(\s*([^)]+)\s*\)")[0]
ExtractCount(c) ==
    IF c = NA \/ TokenStarts(c) = {} THEN NA
    ELSE LET p == Min(TokenStarts(c))
         IN  TokenGroup(SubSeq(c, p + 1, NextClose(c, p) - 1))

\* read_excel_bytes(files["Zoho_Wireless"], skiprows=6) then astype("string")
ReadWireless(xlsx) ==
    [i \in 1..Len(xlsx) |->
        [f \in DOMAIN xlsx[i] |-> IF xlsx[i][f] = <<>> THEN NA ELSE xlsx[i][f]]
        @@ [idx |-> i - 1]]

\* a lookup that keeps the first row of a key even when it has no count
WcvLookupKeepNull(WCV) ==
    LET keys == {ExtractDigits(WCV[i].A) : i \in 1..Len(WCV)} \ {NA}
        first(k) == Min({i \in 1..Len(WCV) : ExtractDigits(WCV[i].A) = k})
    IN  [k \in {k \in keys : ExtractCount(WCV[first(k)].A) # NA} |->
            ExtractCount(WCV[first(k)].A)]

\* pd.Series(cnt_A.values, index=mid_A).dropna(), then
\* lookup[~lookup.index.duplicated(keep="first")]
WcvLookup(WCV) ==
    LET rows == {i \in 1..Len(WCV) : ExtractCount(WCV[i].A) # NA}
        keys == {ExtractDigits(WCV[i].A) : i \in rows} \ {NA}
    IN  [k \in keys |->
            ExtractCount(WCV[Min({i \in rows : ExtractDigits(WCV[i].A) = k})].A)]

\* drop_duplicates(subset=[col], keep="first") on a table of records
RECURSIVE DropDuplicatesBy(_, _, _)
DropDuplicatesBy(df, Key(_), seen) ==
    IF df = <<>> THEN <<>>
    ELSE IF Key(Head(df)) \in seen THEN DropDuplicatesBy(Tail(df), Key, seen)
    ELSE <<Head(df)>> \o DropDuplicatesBy(Tail(df), Key, seen \cup {Key(Head(df))})

\* the three-column result: dropna on Merchant Number, first occurrence kept
build_wireless_count_sheet_exact(WCV) ==
    LET lk == WcvLookup(WCV)
        all == [i \in 1..Len(WCV) |->
                   LET mid_F == ExtractDigits(WCV[i].MerchantNumber)
                   IN  [MerchantNumber |-> mid_F,
                        AccountName |-> WCV[i].AccountName,
                        WirelessCount |-> IF mid_F \in DOMAIN lk THEN lk[mid_F] ELSE NA]]
        present == SelectSeq(all, LAMBDA r : r.MerchantNumber # NA)
    IN  DropDuplicatesBy(present, LAMBDA r : r.MerchantNumber, {})

(***************************************************************************)
(* ISO Report Filter & Enricher (process_valor_exact)                      *)
(***************************************************************************)
T_39 == <<"3", "9">>
T_webb == <<"w", "e", "b", "b">>
T_mailbox_plus == <<"m", "a", "i", "l", "b", "o", "x", " ", "p", "l", "u", "s">>

\* str.startswith
StartsWith(s, prefix) == Len(s) >= Len(prefix) /\ SubSeq(s, 1, Len(prefix)) = prefix

\* read_excel_bytes(files["Valor"], converters=...): a null becomes ""
ReadValor(xlsx) ==
    [i \in 1..Len(xlsx) |-> xlsx[i] @@ [idx |-> i - 1]]

\* strip of MID1, MID2, PROCESSOR, the trailing .0 removed, Processor lowercase
ValorPrepare(r) ==
    [r EXCEPT !.MID1 = StripDotZeros(StripText(@)),
              !.MID2 = StripDotZeros(StripText(@)),
              !.PROCESSOR = StripText(@)]

\* TSYS: ALWAYS prefix 39
ValorPrefix(r) ==
    LET cond_tsys == StartsWith(Lower(r.PROCESSOR), T_tsys)
    IN  IF cond_tsys /\ r.MID1 # <<>> THEN [r EXCEPT !.MID1 = T_39 \o @]
        ELSE IF cond_tsys /\ r.MID1 = <<>> /\ r.MID2 # <<>> THEN [r EXCEPT !.MID2 = T_39 \o @]
        ELSE r

\* DBA filter
ValorIsWebb(r) ==
    LET dba_norm == StripLower(r.DBA_NAME)
    IN  StartsWith(dba_norm, T_webb) \/ dba_norm = T_mailbox_plus

\* the allowed set with the empty text left in
AllowedMerchantsWithEmpty(keptF, keptT) ==
    {StripText(keptF[k].MerchantNo) : k \in 1..Len(keptF)}
        \cup {StripText(keptT[k].MerchantID) : k \in 1..Len(keptT)}

\* Allowed set: both rosters' identifiers as stripped text, "" discarded
AllowedMerchants(keptF, keptT) ==
    ({StripText(keptF[k].MerchantNo) : k \in 1..Len(keptF)}
        \cup {StripText(keptT[k].MerchantID) : k \in 1..Len(keptT)}) \ {<<>>}

\* Wireless XLOOKUP: the count of the digit run of column L, a null when absent
ValorWirelessCount(r, wireless) ==
    LET key == ExtractDigits(IF r.L = <<>> THEN NA ELSE r.L)
        hits == {k \in 1..Len(wireless) : wireless[k].MerchantNumber = key}
    IN  IF key = NA \/ hits = {} THEN NA ELSE wireless[Min(hits)].WirelessCount

process_valor_exact(valor, wireless, keptF, keptT) ==
    LET v1 == [i \in 1..Len(valor) |-> ValorPrefix(ValorPrepare(valor[i]))]
        v2 == SelectSeq(v1, LAMBDA r : ~ValorIsWebb(r))
        v3 == [i \in 1..Len(v2) |->
                  [v2[i] EXCEPT !.MID1 = StripText(@), !.MID2 = StripText(@)]]
        v4 == SelectSeq(v3, LAMBDA r :
                  \/ r.MID1 \in AllowedMerchants(keptF, keptT)
                  \/ r.MID2 \in AllowedMerchants(keptF, keptT))
    IN  [i \in 1..Len(v4) |->
            [v4[i] EXCEPT !.WirelessCount = ValorWirelessCount(v4[i], wireless)]]

(***************************************************************************)
(* The column layout of the ISO Report output                              *)
(***************************************************************************)
H_MID1 == <<"M", "I", "D", "1">>
H_MID2 == <<"M", "I", "D", "2">>
H_PROCESSOR == <<"P", "R", "O", "C", "E", "S", "S", "O", "R">>
H_DBA_NAME == <<"D", "B", "A", " ", "N", "A", "M", "E">>
H_Processor == <<"P", "r", "o", "c", "e", "s", "s", "o", "r">>
H_L_clean == <<"_", "L", "_", "c", "l", "e", "a", "n">>
H_blank == <<" ">>
H_Wireless_count ==
    <<"W", "i", "r", "e", "l", "e", "s", "s", " ", "c", "o", "u", "n", "t">>

\* Valor.columns[11] must exist: the file has at least twelve columns
MinValorCols == 12
aj_pos == 35

\* the header of a file of n columns: the four named columns, then c4, c5, ...
ValorHeader(n) ==
    [k \in 1..n |->
        IF k = 1 THEN H_MID1
        ELSE IF k = 2 THEN H_MID2
        ELSE IF k = 3 THEN H_PROCESSOR
        ELSE IF k = 4 THEN H_DBA_NAME
        ELSE <<"c">> \o IntStr(k - 1)]

\* Valor[name] = ...: a new column goes to the end, an existing one stays
SetColumn(columns, name) ==
    IF \E k \in 1..Len(columns) : columns[k] = name THEN columns
    ELSE Append(columns, name)

\* Valor.pop(name) / Valor.drop(columns=names, errors="ignore")
DropColumns(columns, names) == SelectSeq(columns, LAMBDA c : c \notin names)

\* Valor.insert(loc, name, col), loc 0-based
InsertColumn(columns, loc, name) ==
    SubSeq(columns, 1, loc) \o <<name>> \o SubSeq(columns, loc + 1, Len(columns))

\* the columns of process_valor_exact's result (lines 477, 516-529)
ValorOutputColumns(header) ==
    LET c1 == SetColumn(header, H_Processor)
        c2 == SetColumn(c1, H_L_clean)
        c3 == SetColumn(c2, H_blank)
        c4 == SetColumn(c3, H_Wireless_count)
        popped == DropColumns(c4, {H_Wireless_count})
        loc == IF aj_pos < Len(popped) THEN aj_pos ELSE Len(popped)
        inserted == InsertColumn(popped, loc, H_Wireless_count)
    IN  DropColumns(inserted, {H_L_clean, H_Processor})

(***************************************************************************)
(* run_step1_pipeline, app.py, from the Wireless file on                   *)
(***************************************************************************)
\* Wireless (lines 585-587)
PipelineWireless ==
    /\ pc = "pipe4"
    /\ wcv_lookup' = WcvLookup(ReadWireless(wireless_raw))
    /\ wireless_result' = build_wireless_count_sheet_exact(ReadWireless(wireless_raw))
    /\ pc' = "pipe5"
    /\ UNCHANGED <<uiVars, sixVars, colVars, rawVars, appyVars>>
    /\ UNCHANGED <<selected_month_year, normVars, tsysVars, fiservVars, zohoVars,
                   mex_out_df, wireless_raw, valor_raw, valor_iso, valor_rerun>>

\* Valor (lines 589-599)
PipelineValor ==
    /\ pc = "pipe5"
    /\ valor_iso' = process_valor_exact(ReadValor(valor_raw), wireless_result,
                                        kept_fiserv, kept_tsys)
    /\ valor_iso_columns' = ValorOutputColumns(valor_columns)
    /\ pc' = "pipe6"
    /\ UNCHANGED <<uiVars, sixVars, valor_columns, rawVars, appyVars>>
    /\ UNCHANGED <<selected_month_year, normVars, tsysVars, fiservVars, zohoVars,
                   mex_out_df, wireless_raw, wcv_lookup, wireless_result, valor_raw,
                   valor_rerun>>

\* process_valor_exact applied to its own output (the output re-read with its
\* index restarted)
ValorRerun ==
    /\ pc = "pipe6"
    /\ valor_rerun' = process_valor_exact(
                          [i \in 1..Len(valor_iso) |-> [valor_iso[i] EXCEPT !.idx = i - 1]],
                          wireless_result, kept_fiserv, kept_tsys)
    /\ pc' = "pipe7"
    /\ UNCHANGED <<uiVars, sixVars, colVars, rawVars, appyVars>>
    /\ UNCHANGED <<selected_month_year, normVars, tsysVars, fiservVars, zohoVars,
                   mex_out_df, wireless_raw, wcv_lookup, wireless_result, valor_raw,
                   valor_iso>>

NextIso == PipelineWireless \/ PipelineValor \/ ValorRerun

(***************************************************************************)
(* Wireless and ISO Report runs                                            *)
(***************************************************************************)
T_397 == <<"3", "9", "7">>
T_dash == <<"-">>
T_TSYS_sp == <<"T", "S", "Y", "S", " ">>
T_Fiserv == <<"F", "i", "s", "e", "r", "v">>
T_Shop == <<"S", "h", "o", "p">>
T_Webb_Co == <<"W", "e", "b", "b", " ", "C", "o">>
T_Mailbox_Plus_sp == <<"M", "a", "i", "l", "b", "o", "x", " ", "P", "l", "u", "s", " ">>
T_55 == <<"5", "5">>
W_5_3 == <<"5", " ", "S", " ", "(", "3", " ", "d", ")">>
W_5_4 == <<"5", " ", "S", " ", "(", " ", "4", ")">>
W_5_none == <<"5", " ", "S">>
W_6_2 == <<"S", "6", "(", "2", ")", "(", "9", ")">>
W_none == <<"S", "(", ")">>
W_55_3 == <<"5", "5", " ", "S", " ", "(", "3", " ", "d", ")">>

\* ISO Report rows that differ in identifiers and processor
ValorIdRows ==
    [MID1 : {T_7, T_397, T_7_0, <<>>},
     MID2 : {<<>>, T_7, T_8},
     PROCESSOR : {T_TSYS_sp, T_Fiserv},
     DBA_NAME : {T_Shop},
     L : {T_55},
     WirelessCount : {NA}]

\* ISO Report rows the DBA filter removes, and a row without a column-L key
ValorDbaRows ==
    [MID1 : {T_8},
     MID2 : {<<>>},
     PROCESSOR : {T_Fiserv},
     DBA_NAME : {T_Webb_Co, T_Mailbox_Plus_sp},
     L : {<<>>},
     WirelessCount : {NA}]

ValorRowInputs == ValorIdRows \cup ValorDbaRows

WirelessRowInputs ==
    [A : {W_5_3, W_5_4, W_5_none, W_6_2, W_none, <<>>},
     MerchantNumber : {<<"5">>, <<"N", "6">>, <<>>},
     AccountName : {T_Shop}]

WirelessFixture == <<[A |-> W_55_3, MerchantNumber |-> T_55, AccountName |-> T_Shop]>>

ValorFixture ==
    <<[MID1 |-> T_8, MID2 |-> <<>>, PROCESSOR |-> T_Fiserv, DBA_NAME |-> T_Shop,
       L |-> <<"5">>, WirelessCount |-> NA]>>

\* the state after the standalone Rate Extract output (line 583), for empty Fee
\* Ledger and Rate Extract files
InitIso ==
    /\ pc = "pipe4"
    /\ IdleUi
    /\ IdleSix
    /\ IdleNorm
    /\ IdleZoho
    /\ selected_month_year \in {MonthEndOf(SelectedYear, m) : m \in SelectedMonths}
    /\ tsys_csv = <<TsysOpenRow(T_397, T_Open)>>
    /\ kept_tsys = clean_tsys_synoptic_exact(ReadTsys(tsys_csv), selected_month_year,
                                             six_months_before(selected_month_year))
    /\ fiserv_csv \in {<<FiservOpenRow(T_8, T_AB12)>>,
                       <<FiservOpenRow(T_8, T_AB12), FiservOpenRow(T_dash, T_AB12)>>}
    /\ paso_1800 = <<>>
    /\ paso_3900 = <<>>
    /\ kept_fiserv = FiservStripIds(clean_fiserv_synoptic_exact(ReadFiservExact(fiserv_csv),
                                                                selected_month_year))
    /\ PASO_kept = <<>>
    /\ mex_out_df = <<>>
    /\ wcv_lookup = <<>>
    /\ wireless_result = <<>>
    /\ valor_iso = <<>>
    /\ valor_rerun = <<>>
    /\ valor_iso_columns = <<>>
    /\ tsys_raw = ReadTsys(tsys_csv)
    /\ fiserv_raw = ReadFiservExact(fiserv_csv)
    /\ IdleAppy

\* the pipeline over ISO Report files
InitValor ==
    /\ InitIso
    /\ wireless_raw = WirelessFixture
    /\ valor_raw \in TablesOf(ValorRowInputs, MaxValorRows)
    /\ valor_columns = ValorHeader(MinValorCols)

SpecValor == InitValor /\ [][NextIso]_vars

\* the pipeline over Wireless-Usage files
InitWireless ==
    /\ InitIso
    /\ wireless_raw \in TablesOf(WirelessRowInputs, MaxWirelessRows)
    /\ valor_raw = ValorFixture
    /\ valor_columns = ValorHeader(MinValorCols)

SpecWireless == InitWireless /\ [][NextIso]_vars

(***************************************************************************)
(* ISO Report and Wireless-Usage properties                                *)
(***************************************************************************)
ValorDone == pc \in {"pipe6", "pipe7"}

\* C11: the processor-specific transform is idempotent: a TSYS row's MID1 (or MID2
\* when MID1 is empty) that already starts with "39" is left unchanged, so
\* applying process_valor_exact to its own output gives the same identifiers.
Cex_C11_PrefixIdempotent ==
    pc = "pipe7" =>
        \A i \in 1..Len(valor_iso) :
            \E j \in 1..Len(valor_rerun) :
                /\ valor_rerun[j].idx = i - 1
                /\ valor_rerun[j].MID1 = valor_iso[i].MID1
                /\ valor_rerun[j].MID2 = valor_iso[i].MID2

\* the transform is stable on the rows it does not prefix
NonTsysRowsStable ==
    pc = "pipe7" =>
        \A i \in 1..Len(valor_iso) :
            ~StartsWith(Lower(valor_iso[i].PROCESSOR), T_tsys) =>
                \E j \in 1..Len(valor_rerun) :
                    /\ valor_rerun[j].idx = i - 1
                    /\ valor_rerun[j].MID1 = valor_iso[i].MID1
                    /\ valor_rerun[j].MID2 = valor_iso[i].MID2

\* the text is a non-empty identifier of a retained TSYS or Fiserv row
IsRetainedId(mid) ==
    /\ mid # <<>>
    /\ \/ \E k \in 1..Len(kept_tsys) : StripText(kept_tsys[k].MerchantID) = mid
       \/ \E k \in 1..Len(kept_fiserv) : StripText(kept_fiserv[k].MerchantNo) = mid

\* C13: every row of the ISO Report output has MID1 or MID2, after the prefix
\* transform, equal to a non-empty identifier retained by the TSYS or the Fiserv
\* roster filter; a row with both identifiers empty is never retained.
Thm_C13_IsoRowsInRosters ==
    ValorDone =>
        \A i \in 1..Len(valor_iso) :
            /\ IsRetainedId(valor_iso[i].MID1) \/ IsRetainedId(valor_iso[i].MID2)
            /\ ~(valor_iso[i].MID1 = <<>> /\ valor_iso[i].MID2 = <<>>)

\* a retained roster identifier is empty, a row with both identifiers empty was
\* dropped, and a TSYS row was kept through its prefixed MID2
Wit_C13_KeptThroughMID2 ==
    /\ pc = "pipe6"
    /\ \E k \in 1..Len(kept_fiserv) : kept_fiserv[k].MerchantNo = <<>>
    /\ \E i \in 1..Len(valor_raw) :
          /\ valor_raw[i].MID1 = <<>> /\ valor_raw[i].MID2 = <<>>
          /\ \A j \in 1..Len(valor_iso) : valor_iso[j].idx # i - 1
    /\ \E j \in 1..Len(valor_iso) :
          /\ valor_raw[valor_iso[j].idx + 1].MID2 = T_7
          /\ valor_iso[j].MID1 = <<>>
          /\ valor_iso[j].MID2 = T_397

WirelessDone == pc \in {"pipe5", "pipe6", "pipe7"}

\* C12: the lookup maps each key, the digit run of the first column, to the count
\* token of the first input row carrying that key; a later row with the same key
\* never overrides it, also when the first row has no parenthesized token.
Cex_C12_FirstOccurrenceWins ==
    WirelessDone =>
        \A i \in 1..Len(wireless_raw) :
            LET k == ExtractDigits(wireless_raw[i].A)
                first == Min({j \in 1..Len(wireless_raw) :
                                 ExtractDigits(wireless_raw[j].A) = k})
                token == ExtractCount(wireless_raw[first].A)
            IN  (wireless_raw[i].A # <<>> /\ k # NA) =>
                    IF token = NA THEN k \notin DOMAIN wcv_lookup
                    ELSE k \in DOMAIN wcv_lookup /\ wcv_lookup[k] = token

\* among the rows that carry a count token the first one of a key wins
FirstCountedOccurrenceWins ==
    WirelessDone =>
        \A i \in 1..Len(wireless_raw) :
            LET k == ExtractDigits(wireless_raw[i].A)
                counted == {j \in 1..Len(wireless_raw) :
                               /\ wireless_raw[j].A # <<>>
                               /\ ExtractDigits(wireless_raw[j].A) = k
                               /\ ExtractCount(wireless_raw[j].A) # NA}
            IN  (wireless_raw[i].A # <<>> /\ k # NA /\ counted # {}) =>
                    /\ k \in DOMAIN wcv_lookup
                    /\ wcv_lookup[k] = ExtractCount(wireless_raw[Min(counted)].A)

(***************************************************************************)
(* Partner Roster runs                                                     *)
(***************************************************************************)
T_nbsp7 == <<"~", "7">>

PasoCellInputs == {T_7, T_8, T_7_0, T_nbsp7, <<>>}

\* the Fiserv and Partner steps over Partner extracts
InitPaso ==
    /\ pc = "fiserv0"
    /\ IdleRest
    /\ IdleNorm
    /\ IdleTsys
    /\ selected_month_year \in {MonthEndOf(SelectedYear, m) : m \in SelectedMonths}
    /\ fiserv_csv \in {<<FiservOpenRow(T_7, T_AB12)>>,
                       <<FiservOpenRow(T_7, T_AB12), FiservOpenRow(T_8, T_AB12)>>}
    /\ paso_1800 \in TablesOf(PasoCellInputs, MaxPasoRows)
    /\ paso_3900 \in TablesOf(PasoCellInputs, MaxPasoRows)
    /\ kept_fiserv = <<>>
    /\ PASO_kept = <<>>
    /\ IdleZoho

SpecPaso == InitPaso /\ [][NextFiserv]_vars

\* the identifier cells of a Partner table, as a set
PasoIdsOf(tbl) == {tbl[k].MerchantNumber : k \in 1..Len(tbl)}

\* the cell's digits-only form is an identifier of the Fiserv KEPT set
InFiservKept(cell) ==
    /\ clean_id_numeric(cell) # NA
    /\ \E k \in 1..Len(kept_fiserv) : kept_fiserv[k].MerchantNo = clean_id_numeric(cell)

\* no emitted Partner row has an identifier outside the Fiserv KEPT set
PasoEmittedWithinKept ==
    pc = "paso_app" =>
        \A k \in 1..Len(PASO_kept) : InFiservKept(PASO_kept[k].MerchantNumber)

\* the set of emitted rows is the same for either concatenation order
PasoOrderIndependent ==
    pc = "paso_app" =>
        PasoIdsOf(PASO_kept)
            = PasoIdsOf(PasoKeptExact(PasoMergedExact(paso_3900, paso_1800), kept_fiserv))

\* no row of the concatenation with a digits-only identifier in the KEPT set is
\* dropped, and duplicates are all emitted
PasoNoKeptRowDropped ==
    pc = "paso_app" =>
        LET merged == PasoMergedExact(paso_1800, paso_3900)
        IN  \A i \in 1..Len(merged) :
                InFiservKept(merged[i].MerchantNumber)
                    => \E k \in 1..Len(PASO_kept) : PASO_kept[k].idx = merged[i].idx

\* C14: the Partner Roster output is exactly the rows of the concatenation of the
\* two extracts whose digits-only identifier is in the Fiserv KEPT set: none
\* outside is emitted, none inside is dropped, whatever the concatenation order.
Cex_C14_PartnerOutputExact ==
    PasoEmittedWithinKept /\ PasoNoKeptRowDropped /\ PasoOrderIndependent

(***************************************************************************)
(* The page of app.py: uploads, Generate, Clear, Download                  *)
(***************************************************************************)
\* the entries run_step1_pipeline puts into outputs, in the order it does
PipelineOutputs ==
    <<"PASO_Output.csv",
      "Monthly min and annual PCI without Step1 Output.xlsx",
      "MEX_Output.csv",
      "Valor_1ST_level_Output.xlsx">>

AllOutputs == {PipelineOutputs[k] : k \in 1..Len(PipelineOutputs)}

\* the months of the sidebar
SidebarMonths == 1..12

\* f"{selected_month_year.strftime('%B %Y')} ({datetime.now().strftime('%H:%M:%S')})"
RunLabel(cutoff, clock) == <<YearOf(cutoff), MonthOf(cutoff), clock>>

\* what the download section offers: nothing unless step1_ran and step1_outputs
Offered == IF step1_ran /\ step1_outputs # {} THEN step1_outputs ELSE {}

InitUi ==
    /\ pc = "ui_idle"
    /\ IdleNorm
    /\ IdleTsys
    /\ IdleFiserv
    /\ IdleZoho
    /\ IdleIso
    /\ IdleSix
    /\ IdleCols
    /\ IdleRaw
    /\ IdleAppy
    /\ selected_month_year \in {MonthEndOf(SelectedYear, m) : m \in SidebarMonths}
    /\ missing \in BOOLEAN
    /\ now = 0
    /\ outputs = {}
    /\ step1_outputs = {}
    /\ step1_ran = FALSE
    /\ last_run_meta = <<>>

dataVars == <<normVars, tsysVars, fiservVars, zohoVars, isoVars, sixVars, colVars,
              rawVars, appyVars>>

\* the user picks another month in the sidebar
SelectMonth ==
    /\ pc = "ui_idle"
    /\ \E m \in SidebarMonths :
          /\ MonthEndOf(SelectedYear, m) # selected_month_year
          /\ selected_month_year' = MonthEndOf(SelectedYear, m)
    /\ UNCHANGED <<pc, dataVars, uiVars>>

\* the user adds the last missing upload or removes one
ChangeUploads ==
    /\ pc = "ui_idle"
    /\ missing' = ~missing
    /\ UNCHANGED <<pc, selected_month_year, dataVars, now, outputs, step1_outputs,
                   step1_ran, last_run_meta>>

\* "Clear outputs / Start over"
ClearOutputs ==
    /\ pc = "ui_idle"
    /\ step1_outputs' = {}
    /\ step1_ran' = FALSE
    /\ last_run_meta' = <<>>
    /\ UNCHANGED <<pc, selected_month_year, dataVars, missing, now, outputs>>

\* "Generate Step-1 Outputs": run_step1_pipeline starts with an empty dict
GenerateClick ==
    /\ pc = "ui_idle"
    /\ ~missing
    /\ now < MaxRuns
    /\ now' = now + 1
    /\ outputs' = {}
    /\ pc' = "ui_run"
    /\ UNCHANGED <<selected_month_year, dataVars, missing, step1_outputs, step1_ran,
                   last_run_meta>>

\* run_step1_pipeline computes its next output and puts it into the dict
PipelineStep ==
    /\ pc = "ui_run"
    /\ Cardinality(outputs) < Len(PipelineOutputs)
    /\ outputs' = outputs \cup {PipelineOutputs[Cardinality(outputs) + 1]}
    /\ UNCHANGED <<pc, selected_month_year, dataVars, missing, now, step1_outputs,
                   step1_ran, last_run_meta>>

\* an abort that stores what the run had produced so far
PipelineAbortStoring ==
    /\ pc = "ui_run"
    /\ Cardinality(outputs) < Len(PipelineOutputs)
    /\ step1_outputs' = outputs
    /\ step1_ran' = TRUE
    /\ outputs' = {}
    /\ pc' = "ui_idle"
    /\ UNCHANGED <<selected_month_year, dataVars, missing, now, last_run_meta>>

\* the next step of run_step1_pipeline raises: except Exception shows the error
\* and the local dict is lost
PipelineAbort ==
    /\ pc = "ui_run"
    /\ Cardinality(outputs) < Len(PipelineOutputs)
    /\ outputs' = {}
    /\ pc' = "ui_idle"
    /\ UNCHANGED <<selected_month_year, dataVars, missing, now, step1_outputs, step1_ran,
                   last_run_meta>>

\* run_step1_pipeline returned: the three session entries are assigned
StoreOutputs ==
    /\ pc = "ui_run"
    /\ Cardinality(outputs) = Len(PipelineOutputs)
    /\ step1_outputs' = outputs
    /\ step1_ran' = TRUE
    /\ last_run_meta' = <<RunLabel(selected_month_year, now)>>
    /\ outputs' = {}
    /\ pc' = "ui_idle"
    /\ UNCHANGED <<selected_month_year, dataVars, missing, now>>

NextUi ==
    \/ SelectMonth
    \/ ChangeUploads
    \/ ClearOutputs
    \/ GenerateClick
    \/ PipelineStep
    \/ PipelineAbort
    \/ StoreOutputs

SpecUi == InitUi /\ [][NextUi]_vars

(***************************************************************************)
(* Page properties                                                         *)
(***************************************************************************)
\* the stored output set is empty or all four outputs, and so is what is offered
StoredAllOrNone ==
    /\ step1_outputs \in {{}, AllOutputs}
    /\ Offered \in {{}, AllOutputs}

\* a step that ends a run without its four outputs leaves the session entries alone
AbortKeepsSession ==
    (pc = "ui_run" /\ pc' = "ui_idle" /\ Cardinality(outputs) < Len(PipelineOutputs))
        => UNCHANGED <<step1_outputs, step1_ran, last_run_meta>>

\* C15: after any sequence of Generate runs (succeeding or aborting) and Clear
\* actions the stored output set is empty or holds all four outputs, no partial
\* subset is ever stored or offered for download, and an aborting run leaves
\* step1_outputs, step1_ran and last_run_meta unchanged.
Thm_C15_AllOrNothing == []StoredAllOrNone /\ [][AbortKeepsSession]_vars

\* the second run of the session aborted: the four outputs and the label of the
\* first run are still stored
Wit_C15_AbortAfterSuccess ==
    /\ pc = "ui_idle"
    /\ now = 2
    /\ step1_outputs = AllOutputs
    /\ step1_ran
    /\ last_run_meta = <<RunLabel(selected_month_year, 1)>>

(***************************************************************************)
(* Roster invariants                                                       *)
(***************************************************************************)
\* app.py: every retained Fiserv row passes the sales-agent rule
AgentRuleHoldsExact ==
    pc \in {"fiserv_app", "paso_app"} =>
        \A k \in 1..Len(kept_fiserv) : AgentInScope(kept_fiserv[k])

\* C16: every row of the Fiserv KEPT set has a trimmed sales-agent code that
\* contains a letter or is a number of the allow-list, and is not "IS02"; rows
\* with an empty, symbol-only or other numeric code are never retained.
Cex_C16_KeptAgentsInScope ==
    pc \in {"fiserv_app", "paso_app", "fiserv_appy"} =>
        \A k \in 1..Len(kept_fiserv) : AgentInScope(kept_fiserv[k])


\* the terminal state of one input row under the row rules alone: its open
\* date is not after the cutoff, its status is not terminal unless the
\* status correction rewrites it, and its rep is not hard-excluded
TsysRowPasses(r) ==
    LET status == StripLower(r.Status)
        reopened == /\ status = T_closed
                    /\ DateGT(ToDatetime(r.DateClosed), selected_month_year)
    IN  /\ ~DateGT(ToDatetime(r.DateOpened), selected_month_year)
        /\ reopened \/ status \notin {T_closed, T_declined, T_cancelled}
        /\ StripLower(r.RepName) \notin TsysBlacklist

\* the rows the rules leave when the duplicate rule runs last: a row that
\* passes the row rules and has no earlier passing row with its identifier
TsysKeptByOrder ==
    {TsysInput[i].idx : i \in
        {i \in 1..Len(TsysInput) :
            /\ TsysRowPasses(TsysInput[i])
            /\ \A j \in 1..(i - 1) :
                  TsysRowPasses(TsysInput[j]) =>
                      TsysInput[j].MerchantID # TsysInput[i].MerchantID}}

SidebarFirstYear == 2020
SidebarLastYear == 2030

InitThreshold ==
    /\ pc = "six0"
    /\ selected_month_year \in
          {MonthEndOf(y, mth) : y \in SidebarFirstYear..SidebarLastYear,
                                mth \in SidebarMonths}
    /\ IdleNorm
    /\ IdleTsys
    /\ IdleFiserv
    /\ IdleZoho
    /\ IdleRest

\* app.py: the sidebar computes one threshold (line 58) and run_step1_pipeline
\* hands it to the TSYS filter (540) and to the Rate Extract output (582); its
\* Fiserv filter has no dormancy rule
ThresholdsExact ==
    /\ pc = "six0"
    /\ six_used' = {<<"tsys", six_months_before(selected_month_year)>>,
                    <<"mex", six_months_before(selected_month_year)>>}
    /\ pc' = "six_app"
    /\ UNCHANGED <<selected_month_year, normVars, tsysVars, fiservVars, zohoVars,
                   isoVars, uiVars, colVars, rawVars, appyVars>>

\* appy.py: clean_tsys_data (96) and clean_fiserv_data (154) each compute their
\* own threshold; it has no Rate Extract step
ThresholdsData ==
    /\ pc = "six0"
    /\ six_used' = {<<"tsys", six_months_before_tsys_data(selected_month_year)>>,
                    <<"fiserv", six_months_before(selected_month_year)>>}
    /\ pc' = "six_appy"
    /\ UNCHANGED <<selected_month_year, normVars, tsysVars, fiservVars, zohoVars,
                   isoVars, uiVars, colVars, rawVars, appyVars>>

NextThreshold == ThresholdsExact \/ ThresholdsData

SpecThreshold == InitThreshold /\ [][NextThreshold]_vars

\* the last calendar day of the month six months before the cutoff month
MonthEndSixBack ==
    LET k == YearOf(selected_month_year) * 12 + (MonthOf(selected_month_year) - 1) - 6
    IN  MonthEndOf(k \div 12, (k % 12) + 1)

\* app.py: every dormancy check is given the month-end six months back
ThresholdAlignedExact ==
    pc = "six_app" => \A u \in six_used : u[2] = MonthEndSixBack

\* C18: for every month-end cutoff, the threshold of every dormancy check (TSYS
\* last deposit, Fiserv stale batch, Rate Extract reinstatement) is the last
\* calendar day of the month six months before the cutoff month, and all
\* checks of one run use the same value.
Cex_C18_ThresholdIsMonthEnd ==
    pc \in {"six_app", "six_appy"} =>
        /\ \A u \in six_used : u[2] = MonthEndSixBack
        /\ \A u, v \in six_used : u[2] = v[2]


(***************************************************************************)
(* The Fee Ledger status rules                                             *)
(***************************************************************************)
T_DECLINED == <<"D", "E", "C", "L", "I", "N", "E", "D">>
T_N_A_sp == <<"N", "/", "A", " ">>
T_Pending == <<"P", "e", "n", "d", "i", "n", "g">>

\* Fee Ledger rows of a retained merchant under every status, approval date
\* and closure date, and one row whose Sales Id has no letter
ZohoStatusRows ==
    [SalesId : {T_AB12},
     MerchantNumber : {T_7},
     AccountStatus : {T_Approved, T_Closed_sp, T_DECLINED, T_N_A_sp, T_Pending, <<>>},
     DateApproved : {20240101, 20241001},
     DateClosed : {0, 20241015},
     Processor : {T_TSYS},
     RecurringFeeMonth : {T_9}]
    \cup
    [SalesId : {T_1234},
     MerchantNumber : {T_7},
     AccountStatus : {T_Closed_sp},
     DateApproved : {20240101},
     DateClosed : {20241015},
     Processor : {T_TSYS},
     RecurringFeeMonth : {T_9}]

InitZohoRules ==
    /\ InitPipeline
    /\ tsys_csv = <<TsysOpenRow(T_7, T_Open)>>
    /\ fiserv_csv = <<FiservOpenRow(T_8, T_AB12)>>
    /\ zoho_raw \in TablesOf(ZohoStatusRows, MaxZohoRows)
    /\ mex_raw = MexFixture

SpecZohoRules == InitZohoRules /\ [][NextPipeline]_vars

\* a closed row whose closure date is after the cutoff and which no rule other
\* than the status rule removes
ZohoReapproveCase(r) ==
    /\ Lower(StripText(r.AccountStatus)) = T_closed
    /\ DateGT(ToDatetime(r.DateClosed), selected_month_year)
    /\ HasLetter(StripText(r.SalesId))
    /\ ~DateGT(ToDatetime(r.DateApproved), selected_month_year)
    /\ Lower(StripText(r.SalesId)) # T_is20
    /\ StripText(r.SalesId) \notin agents_to_remove
    /\ InRetainedRosters(StripText(r.MerchantNumber))
    /\ StripLower(r.Processor) \in {T_tsys, T_fiserv}

\* C19: a Fee Ledger row whose status is "closed" in any case with a closure
\* date after the cutoff is written out with status "Approved" when no other
\* rule removes it, and no row of either Fee Ledger output has a status among
\* closed, declined, n/a and empty in any case, an approval date after the
\* cutoff, or a Sales Id without a letter.
Thm_C19_ZohoStatusRules ==
    ZohoDone =>
        /\ \A i \in 1..Len(zoho_raw) :
              ZohoReapproveCase(ReadZoho(zoho_raw)[i]) =>
                  \E r \in ZohoOutputRows :
                      r.idx = i - 1 /\ r.AccountStatus = T_Approved
        /\ \A r \in ZohoOutputRows :
              /\ Lower(r.AccountStatus) \notin {T_closed, T_declined, T_n_a, <<>>}
              /\ ~DateGT(ToDatetime(zoho_raw[r.idx + 1].DateApproved),
                         selected_month_year)
              /\ HasLetter(r.SalesId)

\* C19 witness: a closed row with a closure date after the cutoff is written
\* out as "Approved" next to a closed row that was removed
Wit_C19_ClosedRowReapproved ==
    /\ pc = "pipe2"
    /\ Len(zoho_raw) = 2
    /\ zoho_raw[1].AccountStatus = T_Closed_sp /\ zoho_raw[1].DateClosed = 0
    /\ zoho_raw[2].AccountStatus = T_Closed_sp /\ zoho_raw[2].DateClosed = 20241015
    /\ \E r \in ZohoOutputRows : r.idx = 1 /\ r.AccountStatus = T_Approved
    /\ Cardinality(ZohoOutputRows) = 1


(***************************************************************************)
(* The standalone Rate Extract output (mex_output_csv_exact)               *)
(***************************************************************************)
sales_rep_numbers_output == {HUBW_006, HUBW_124}

cols_to_check ==
    {"total_settle_tickets", "net_settle_volume", "merchant_total_revenue",
     "STW_total_residual"}

\* pd.to_numeric(cell, errors="coerce") then .fillna(0).ne(0): the cell is a
\* number with a non-zero digit
ActivityNonZero(c) ==
    /\ c # NA
    /\ IsNumericText(c)
    /\ \E i \in 1..Len(c) : IsDigit(c[i]) /\ c[i] # "0"

\* mask_back_to_kept
MexBackToKept(r, six) ==
    /\ StripLower(r.merchant_status) = T_c
    /\ DateLT(ToDatetime(r.last_deposit_date), six)
    /\ \E col \in cols_to_check : ActivityNonZero(r[col])

\* the rows that are not closed, then the reinstated closed rows, without the
\* rows of the two listed reps
mex_output_csv_exact(mex, six) ==
    LET kept_mex_1 == SelectSeq(mex, LAMBDA r : StripLower(r.merchant_status) # T_c)
        removed_mex == SelectSeq(mex, LAMBDA r : StripLower(r.merchant_status) = T_c)
        to_keep == SelectSeq(removed_mex, LAMBDA r : MexBackToKept(r, six))
    IN  SelectSeq(kept_mex_1 \o to_keep,
                  LAMBDA r : Strip(AsStr(r.sales_rep_number)) \notin sales_rep_numbers_output)

\* MEX output CSV (lines 581-583)
PipelineMexOutput ==
    /\ pc = "pipe3"
    /\ mex_out_df' = mex_output_csv_exact(ReadMex(mex_raw),
                                          six_months_before(selected_month_year))
    /\ pc' = "pipe4"
    /\ UNCHANGED <<selected_month_year, normVars, tsysVars, fiservVars, zohoVars,
                   wireless_raw, wcv_lookup, wireless_result, valor_raw, valor_iso,
                   valor_rerun, uiVars, sixVars, colVars, rawVars,
                   appyVars>>

NextMexOutput == PipelineMexOutput

T_5_5 == <<"5", ".", "5">>

\* a Rate Extract row with its last-deposit date and two of its activity columns
MexOutRow(status, rep, deposit, tickets, residual) ==
    MexRow(T_7, status, rep, T_10, T_0)
        @@ [last_deposit_date |-> deposit, total_settle_tickets |-> tickets,
            net_settle_volume |-> T_0, merchant_total_revenue |-> <<>>,
            STW_total_residual |-> residual]

\* rows that are not closed under each rep; closed rows of an unlisted rep under
\* every last-deposit date and activity; closed, reinstatable rows of listed reps
MexOutRowInputs ==
    {MexOutRow(T_O, rep, 20240901, T_5, T_0) : rep \in {T_R1, HUBW_006, HUBW_024, <<>>}}
    \cup {MexOutRow(T_C_sp, T_R1, d, t, T_0) :
             d \in {0, -1, 20240330, 20240331, 20240901}, t \in {T_0, T_5, T_x, <<>>}}
    \cup {MexOutRow(T_C_sp, T_R1, 20240101, T_0, T_5_5)}
    \cup {MexOutRow(T_C_sp, rep, 20240101, T_5, T_0) : rep \in {HUBW_124, HUBW_024}}

\* the state after the Step-1 lookup (line 566), for an empty Fee Ledger
InitMexOutput ==
    /\ pc = "pipe3"
    /\ IdleRest
    /\ IdleNorm
    /\ IdleTsys
    /\ IdleFiserv
    /\ selected_month_year \in {MonthEndOf(SelectedYear, m) : m \in SelectedMonths}
    /\ zoho_raw = <<>>
    /\ mex_raw \in TablesOf(MexOutRowInputs, MaxMexRows)
    /\ Zoho_keep_Fiserv = <<>>
    /\ Zoho_keep_TSYS = <<>>
    /\ kept_mex_monthly = mex_for_monthly_exact(ReadMex(mex_raw))
    /\ mex_step1_lookup = MexStep1Lookup(kept_mex_monthly)

SpecMexOutput == InitMexOutput /\ [][NextMexOutput]_vars

MexOutputDone == pc = "pipe4" /\ mex_raw # <<>>

MexOutIdx == {mex_out_df[k].idx : k \in 1..Len(mex_out_df)}

\* what the code emits: a row of an unlisted rep (two-name list) that is not
\* closed or is reinstated
MexOutputAsCoded ==
    MexOutputDone =>
        \A i \in 1..Len(mex_raw) :
            LET r == ReadMex(mex_raw)[i]
            IN  (i - 1) \in MexOutIdx <=>
                    /\ Strip(AsStr(r.sales_rep_number)) \notin {HUBW_006, HUBW_124}
                    /\ \/ StripLower(r.merchant_status) # T_c
                       \/ MexBackToKept(r, six_months_before(selected_month_year))

\* a closed row with a null or unparseable last-deposit date, or whose four
\* activity columns are all zero or non-numeric, is never in the output
MexNeverReinstated ==
    MexOutputDone =>
        \A i \in 1..Len(mex_raw) :
            LET r == ReadMex(mex_raw)[i]
            IN  (/\ StripLower(r.merchant_status) = T_c
                 /\ \/ ToDatetime(r.last_deposit_date) = NaT
                    \/ \A col \in cols_to_check : ~ActivityNonZero(r[col]))
                => (i - 1) \notin MexOutIdx

\* C20: the standalone Rate Extract output holds a row exactly when (a) its
\* status is not "c" and its rep is not in the blacklist of the Rate Extract
\* filter, or (b) its status is "c", its last-deposit date is strictly before
\* the dormancy threshold, one of the four activity columns is non-zero and
\* its rep is not in the smaller second blacklist.
Cex_C20_OutputIffKeptOrReinstated ==
    MexOutputDone =>
        \A i \in 1..Len(mex_raw) :
            LET r == ReadMex(mex_raw)[i]
                rep == Strip(AsStr(r.sales_rep_number))
                closed == StripLower(r.merchant_status) = T_c
            IN  (i - 1) \in MexOutIdx <=>
                    \/ ~closed /\ rep \notin sales_rep_numbers_monthly
                    \/ /\ closed
                       /\ DateLT(ToDatetime(r.last_deposit_date),
                                 six_months_before(selected_month_year))
                       /\ \E col \in cols_to_check : ActivityNonZero(r[col])
                       /\ rep \notin {HUBW_006, HUBW_124}


(***************************************************************************)
(* ISO Report files of every width                                         *)
(***************************************************************************)
MaxValorCols == 40

InitValorColumns ==
    /\ InitIso
    /\ wireless_raw = WirelessFixture
    /\ valor_raw = ValorFixture
    /\ valor_columns \in {ValorHeader(n) : n \in MinValorCols..MaxValorCols}

SpecValorColumns == InitValorColumns /\ [][NextIso]_vars

\* the 0-based positions of a title in the output table
ColumnIndexes(name) ==
    {k - 1 : k \in {k \in 1..Len(valor_iso_columns) : valor_iso_columns[k] = name}}

\* a file of at least 35 columns: "Wireless count" is at index 35 and the
\* blank-titled column is last
WideFileColumnsAtTarget ==
    (ValorDone /\ Len(valor_columns) >= aj_pos) =>
        /\ ColumnIndexes(H_Wireless_count) = {aj_pos}
        /\ ColumnIndexes(H_blank) = {Len(valor_iso_columns) - 1}

\* the helper columns are not in the output
HelperColumnsDropped ==
    ValorDone =>
        ColumnIndexes(H_L_clean) = {} /\ ColumnIndexes(H_Processor) = {}

\* C21: for every input column count, the ISO Report output has "Wireless
\* count" at 0-based column index 35 and not at the end, the blank-titled
\* column is its last column, and "_L_clean" and "Processor" are absent.
Cex_C21_WirelessCountAtTarget ==
    ValorDone =>
        /\ ColumnIndexes(H_Wireless_count) = {aj_pos}
        /\ ColumnIndexes(H_blank) = {Len(valor_iso_columns) - 1}
        /\ ColumnIndexes(H_L_clean) = {}
        /\ ColumnIndexes(H_Processor) = {}


(***************************************************************************)
(* Frame conditions of the roster stages                                   *)
(***************************************************************************)
InitRosters == InitTsys \/ InitFiserv

NextRosters == NextTsys \/ NextFiserv

SpecRosters == InitRosters /\ [][NextRosters]_vars

\* app.py: both roster filters work on a copy, and the Partner Roster step
\* rewrites the Fiserv identifiers with the values they already have
ExactStagesLeaveTables ==
    /\ pc = "tsys_app" => tsys_raw = ReadTsys(tsys_csv)
    /\ pc \in {"fiserv_app", "paso_app"} => fiserv_raw = ReadFiservExact(fiserv_csv)
    /\ pc = "paso_app" =>
          kept_fiserv = clean_fiserv_synoptic_exact(ReadFiservExact(fiserv_csv),
                                                    selected_month_year)

\* appy.py: clean_fiserv_data rebinds its parameter to a new table first
FiservDataLeavesInput ==
    pc = "fiserv_appy" => fiserv_raw = ReadFiservData(fiserv_csv)

\* C22: no stage changes a table it did not create: the raw TSYS and Fiserv
\* tables are the same after their roster filter as they were read, and the
\* Fiserv KEPT table after the Partner Roster step is the table the Fiserv
\* filter returned.
Cex_C22_StagesLeaveTables ==
    /\ TsysDone => tsys_raw = ReadTsys(tsys_csv)
    /\ pc \in {"fiserv_app", "paso_app"} => fiserv_raw = ReadFiservExact(fiserv_csv)
    /\ pc = "fiserv_appy" => fiserv_raw = ReadFiservData(fiserv_csv)
    /\ pc = "paso_app" =>
          kept_fiserv = clean_fiserv_synoptic_exact(ReadFiservExact(fiserv_csv),
                                                    selected_month_year)


(***************************************************************************)
(* The two-step page of appy.py                                            *)
(***************************************************************************)
\* all_files (lines 254-255)
Step1Files ==
    {"synoptic_tsys", "synoptic_fiserv", "zoho_fees", "zoho_wireless", "mex_file",
     "paso_s1", "paso_s2", "valor"}

Step2Files == {"monthly_min", "valor_step1"}

\* the dict process_step1_files returns
Step1OutputFiles == {"Step1_Output.xlsx"}

all_uploaded == uploaded = Step1Files

InitAppy ==
    /\ pc = "appy"
    /\ selected_month_year \in {MonthEndOf(SelectedYear, mth) : mth \in SelectedMonths}
    /\ IdleNorm
    /\ IdleTsys
    /\ IdleFiserv
    /\ IdleZoho
    /\ IdleRest

\* what the handlers of the page leave alone
appyFrame ==
    <<pc, selected_month_year, normVars, tsysVars, fiservVars, zohoVars, isoVars,
      uiVars, sixVars, colVars, rawVars>>

\* a Step 1 uploader receives or loses its file (lines 239-251)
ChangeStep1Upload ==
    /\ step = 1
    /\ \E f \in Step1Files :
          uploaded' = IF f \in uploaded THEN uploaded \ {f} ELSE uploaded \cup {f}
    /\ error_shown' = FALSE
    /\ UNCHANGED <<step, step1_complete, output_files, step2_uploaded, appyFrame>>

\* "Proceed to Process Step 1": the files are read and processed and the
\* session entries assigned (lines 263-285)
ProcessStep1 ==
    /\ step = 1
    /\ all_uploaded
    /\ ~step1_complete
    /\ step1_complete' = TRUE
    /\ output_files' = Step1OutputFiles
    /\ error_shown' = FALSE
    /\ UNCHANGED <<step, uploaded, step2_uploaded, appyFrame>>

\* "Proceed to Process Step 1" when a read or process_step1_files raises: the
\* except clause shows the error (lines 287-288)
ProcessStep1Raises ==
    /\ step = 1
    /\ all_uploaded
    /\ ~step1_complete
    /\ error_shown' = TRUE
    /\ UNCHANGED <<step, step1_complete, output_files, uploaded, step2_uploaded,
                   appyFrame>>

\* a "Continue to Step 2" that does not reset step1_complete
ContinueToStep2KeepingComplete ==
    /\ step = 1
    /\ all_uploaded
    /\ step1_complete
    /\ step' = 2
    /\ uploaded' \in {uploaded, {}}
    /\ error_shown' = FALSE
    /\ UNCHANGED <<step1_complete, output_files, step2_uploaded, appyFrame>>

\* "Continue to Step 2" (lines 323-326); the Step 1 uploaders are no longer
\* drawn and may keep or lose their files
ContinueToStep2 ==
    /\ step = 1
    /\ all_uploaded
    /\ step1_complete
    /\ step' = 2
    /\ step1_complete' = FALSE
    /\ uploaded' \in {uploaded, {}}
    /\ error_shown' = FALSE
    /\ UNCHANGED <<output_files, step2_uploaded, appyFrame>>

\* a Step 2 uploader receives or loses its file (lines 339-342)
ChangeStep2Upload ==
    /\ step = 2
    /\ \E f \in Step2Files :
          step2_uploaded' = IF f \in step2_uploaded THEN step2_uploaded \ {f}
                            ELSE step2_uploaded \cup {f}
    /\ UNCHANGED <<step, step1_complete, output_files, uploaded, error_shown, appyFrame>>

\* "Back to Step 1" (lines 368-370); "Start Over" (359-361) is drawn inside the
\* branch of another button and assigns the same value
BackToStep1 ==
    /\ step = 2
    /\ step' = 1
    /\ step2_uploaded' \in {step2_uploaded, {}}
    /\ UNCHANGED <<step1_complete, output_files, uploaded, error_shown, appyFrame>>

NextAppy ==
    \/ ChangeStep1Upload
    \/ ProcessStep1
    \/ ProcessStep1Raises
    \/ ContinueToStep2
    \/ ChangeStep2Upload
    \/ BackToStep1

SpecAppy == InitAppy /\ [][NextAppy]_vars

\* step is 1 or 2, and step 2 is never shown with step1_complete set
StepStates ==
    /\ step \in {1, 2}
    /\ step = 2 => ~step1_complete

\* step 2 is entered only from a complete Step 1 with all eight files, and
\* entering it resets step1_complete
EnterOnlyByContinue ==
    (step = 1 /\ step' = 2) =>
        step1_complete /\ all_uploaded /\ ~step1_complete'

\* step1_complete is set only by a processing run that succeeded with all
\* eight files and stored its outputs
CompleteOnlyBySuccess ==
    (~step1_complete /\ step1_complete') =>
        /\ step = 1 /\ step' = 1
        /\ all_uploaded
        /\ ~error_shown'
        /\ output_files' = Step1OutputFiles

\* a run that raises leaves step, step1_complete and output_files as they were
RaiseKeepsSession ==
    (error_shown' /\ ~error_shown) =>
        UNCHANGED <<step, step1_complete, output_files>>

\* C23: in appy.py step is always 1 or 2; step 2 is entered only by "Continue
\* to Step 2", available only while step1_complete holds after a successful
\* run with all eight files; entering resets step1_complete, so step = 2
\* implies step1_complete is false and after "Back to Step 1" a new successful
\* run is needed to enter again; a run that raises leaves step,
\* step1_complete and output_files unchanged.
Thm_C23_StepMachine ==
    /\ []StepStates
    /\ [][EnterOnlyByContinue]_vars
    /\ [][CompleteOnlyBySuccess]_vars
    /\ [][RaiseKeepsSession]_vars

\* C23 witness: back at Step 1 after a successful run and a visit to Step 2,
\* a new run raised: the outputs of the first run are still stored and
\* "Continue to Step 2" is not available
Wit_C23_RaiseAfterBack ==
    /\ step = 1
    /\ ~step1_complete
    /\ output_files = Step1OutputFiles
    /\ all_uploaded
    /\ error_shown
    /\ ~ENABLED ContinueToStep2

====
